---- MODULE Spec2Model ----
(***************************************************************************)
(* A model of the term-matching core of spellcheck-llm: the fuzzy token    *)
(* pattern builder and its use by re.finditer, the bilingual consistency   *)
(* and first-mention checks of one scan, the pair extractor, the diff of   *)
(* extracted pairs against the term table, and term-table normalization.   *)
(*                                                                         *)
(* Text is a sequence of characters; a character is a one-character        *)
(* string, except that the CJK ideographs are written "jia", "yi" and      *)
(* "ext" and the full-width punctuation "fw(", "fw)", "fw;" and "fw-"      *)
(* (the module is plain ASCII).  Offsets of matches are 0-based, as in     *)
(* Python.                                                                 *)
(***************************************************************************)
EXTENDS Integers, Sequences, FiniteSets, TLC

(***************************************************************************)
(* Characters and strings                                                  *)
(***************************************************************************)

\* The CJK ideographs of the model (inside the ranges of is_cjk): "jia" and
\* "yi" in U+4E00..U+9FA5, "ext" in Extension A (U+3400..U+4DBF).
ZhRangeChars == {"jia", "yi"}
CjkChars == ZhRangeChars \cup {"ext"}

\* str.isspace / the regex class \s, on the characters of the model: the
\* blank and the line feed ("nl").
IsSpace(ch) == ch \in {" ", "nl"}

\* is_cjk(ch)
is_cjk(ch) == ch \in CjkChars

\* str.lower and str.upper, character by character.
LowerCh(ch) ==
  CASE ch = "A" -> "a" [] ch = "B" -> "b" [] ch = "C" -> "c" [] ch = "E" -> "e"
    [] ch = "H" -> "h" [] ch = "N" -> "n" [] ch = "R" -> "r" [] ch = "Z" -> "z"
    [] OTHER -> ch

UpperCh(ch) ==
  CASE ch = "a" -> "A" [] ch = "b" -> "B" [] ch = "c" -> "C" [] ch = "e" -> "E"
    [] ch = "h" -> "H" [] ch = "n" -> "N" [] ch = "r" -> "R" [] ch = "z" -> "Z"
    [] OTHER -> ch

Lower(s) == [i \in 1..Len(s) |-> LowerCh(s[i])]
Upper(s) == [i \in 1..Len(s) |-> UpperCh(s[i])]

\* s.startswith(p)
StartsWith(s, p) == Len(s) >= Len(p) /\ SubSeq(s, 1, Len(p)) = p

\* s.strip(): leading and trailing whitespace removed.
RECURSIVE LStrip(_)
LStrip(s) == IF s # <<>> /\ IsSpace(Head(s)) THEN LStrip(Tail(s)) ELSE s

RECURSIVE RStrip(_)
RStrip(s) ==
  IF s # <<>> /\ IsSpace(s[Len(s)]) THEN RStrip(SubSeq(s, 1, Len(s) - 1)) ELSE s

Strip(s) == RStrip(LStrip(s))

\* Python's s[lo:hi] for 0 <= lo.
Slice(s, lo, hi) ==
  LET h == IF hi > Len(s) THEN Len(s) ELSE hi
  IN  IF lo >= h THEN <<>> ELSE SubSeq(s, lo + 1, h)

Max(S) == CHOOSE x \in S : \A y \in S : y <= x
Min(S) == CHOOSE x \in S : \A y \in S : x <= y
Range(f) == {f[i] : i \in DOMAIN f}
Abs(n) == IF n < 0 THEN 0 - n ELSE n

\* All strings over alphabet A of length at most n.
StringsUpTo(A, n) == UNION {[1..k -> A] : k \in 0..n}

\* Flatten a sequence of sequences.
RECURSIVE Concat(_)
Concat(ss) == IF ss = <<>> THEN <<>> ELSE Head(ss) \o Concat(Tail(ss))

(***************************************************************************)
(* State.  The variables fall into groups, one per part of the program;    *)
(* a specification runs one part and leaves the other groups at their      *)
(* idle values.                                                            *)
(***************************************************************************)
VARIABLES
  \* the scan of app_streamlit_plus.py
  term_df,         \* the term table map_headers returned (a sequence of rows)
  check_pair,      \* sidebar toggle: bilingual consistency check
  check_first,     \* sidebar toggle: first-mention check
  pno,             \* number of the page scanned last (0 before the first)
  pages_text,      \* normalized text (norm) of the pages scanned so far
  known_hits,      \* KNOWN_VARIANT records, in order of emission
  pair_issues,     \* MISSING_OR_WRONG_ZH records, in order of emission
  first_mentions,  \* FIRST_MENTION_MISSING_ZH records, in order of emission
  seen_terms,      \* lower-cased English terms met so far
  first_mentions_super,  \* first_mentions of app_streamlit_super.py: [raised, records]
  \* the diff engine of app_streamlit_auto_extract.py
  termbase,          \* the session's term table (standardize_master's result)
  extracted,         \* extracted_pairs_with_location (deduplicated pairs)
  diff_pc,           \* "start", "plain" (detect_differences ran) or "located"
  new_items,         \* the first component of the result
  potential_errors,  \* the second component of the result
  \* the pair extractor
  ex_parts,        \* the Chinese, English and abbreviation the text is made of
  ex_text,         \* the text handed to the extractor
  ex_pc,           \* "start", "plain" (parse_pdf_pairs ran) or "located"
  ex_pairs,        \* the rows of the data frame returned
  \* term-table normalization
  nm_input,        \* the table handed to standardize_master
  nm_pc,           \* number of standardize_master calls made (0..2)
  nm_once,         \* standardize_master(nm_input)
  nm_twice,        \* standardize_master(nm_once)
  \* the fuzzy pattern of one token, tried on one text
  fz_token,        \* the token the pattern is built from
  fz_pc,           \* "start" or "done"
  fz_text,         \* the text searched
  fz_hits,         \* list(rx.finditer(fz_text))
  \* the term-table session of the Streamlit applications
  ss_app,          \* "super" or "gsheets": the application run
  ss_have_gs,      \* HAVE_GS: gspread and google-auth are installed
  ss_local,        \* termbase_master.csv: [exists, rows]
  ss_sheet,        \* the remote worksheet: [exists, rows under the header]
  ss_use_gs,       \* sidebar toggle: use Google Sheets
  ss_creds,        \* sheet URL and credentials file are both provided
  ss_autosave,     \* toggle: write new pairs without review
  ss_pdf,          \* the uploaded PDF: [loaded, pairs, unknowns]
  ss_ed4,          \* rows filled in and ticked in the editor of tab 4
  ss_ed5,          \* indices of the new pairs ticked in their editor
  ss_runs,         \* runs of the script after the first (-1 before it)
  ss_event,        \* the interaction that started the last run
  ss_master,       \* termbase / master_df of the last run
  ss_from,         \* the store it was loaded from: "local", "sheet", "none"
  ss_held,         \* the rows of the two stores when the last run began
  ss_new,          \* new_pairs / new_rows of the last run
  ss_shown,        \* editors and buttons the last run put on the screen
  ss_writes,       \* the writes of the last run, in order
  ss_run,          \* the last run: [stopped, has_ws, messages, scanned]
  \* the unknown-term detection
  uk_app,          \* "super" or "auto_plus": the application run
  uk_have_rf,      \* HAVE_RF: rapidfuzz is installed
  uk_master,       \* termbase / master_df
  uk_text,         \* full_text
  uk_ngram,        \* zh_ngram / zh_ngram_len
  uk_wratio,       \* the score fuzz.WRatio gives the choice at each position
  uk_pc,           \* "start" or "done"
  uk_en_cands,     \* en_cands
  uk_zh_cands,     \* zh_cands
  \* the command-line tool (and map_headers of app_streamlit_plus.py)
  tl_app,          \* "cli" (pdf_spellcheck.py) or "plus"
  tl_raw,          \* raw: the table pd.read_csv returned
  tl_pc,           \* "start", "scan", "built" or "raised"
  tl_df,           \* the table map_headers returned
  tl_mapping,      \* the mapping map_headers returned
  tl_warnings,     \* the essential columns map_headers warned about
  tl_pats,         \* pats / variant_patterns
  tl_raised,       \* an exception left the pattern building
  tl_pages,        \* what extract_text did on the pages scanned so far
  tl_hits,         \* hits
  \* the password gate of app_streamlit_cloud.py
  pw_secret,       \* st.secrets: [has, value] of the key "password"
  pw_state,        \* st.session_state: password_correct and password
  pw_shown,        \* what the last run put on the screen
  pw_submitted,    \* the passwords submitted in this session, in order
  pw_runs,         \* runs of the script so far, over all sessions
  pw_sessions,     \* browser sessions opened so far
  \* one call of write_master_to_ws
  wr_ws,           \* the worksheet: [header, rows under the header]
  wr_df,           \* the table handed to write_master_to_ws
  wr_before,       \* the worksheet as it was before the call
  wr_pc,           \* "start", "done" or "raised"
  \* the script of app_streamlit_auto_extract.py
  ax_have_gs,      \* HAVE_GS
  ax_json,         \* the service-account JSON file exists
  ax_sheet,        \* the rows of the remote worksheet under the header
  ax_use_gs,       \* the toggle use_gs
  ax_pending,      \* the toggle auto_mark_pending
  ax_file,         \* the uploaded file: [kind, pairs found in its text]
  ax_run,          \* the last run of the script
  ax_upload,       \* the upload the last interaction carried out, if any
  ax_runs,         \* interactions so far
  \* saving the new pairs to the local CSV and loading it again
  rt_file,         \* termbase_master.csv
  rt_pairs,        \* pairs_df: the pairs parse_pdf_pairs found in the document
  rt_master,       \* termbase of the run
  rt_new,          \* new_pairs of the run
  rt_saved,        \* combined: the table handed to save_local_master
  rt_pc            \* "loaded", "saved" or "rescanned"

scanVars == <<term_df, check_pair, check_first, pno, pages_text, known_hits,
              pair_issues, first_mentions, seen_terms, first_mentions_super>>
diffVars == <<termbase, extracted, diff_pc, new_items, potential_errors>>
exVars == <<ex_parts, ex_text, ex_pc, ex_pairs>>
nmVars == <<nm_input, nm_pc, nm_once, nm_twice>>
fzVars == <<fz_token, fz_pc, fz_text, fz_hits>>
ssVars == <<ss_app, ss_have_gs, ss_local, ss_sheet, ss_use_gs, ss_creds,
            ss_autosave, ss_pdf, ss_ed4, ss_ed5, ss_runs, ss_event, ss_master,
            ss_from, ss_held, ss_new, ss_shown, ss_writes, ss_run>>
ukVars == <<uk_app, uk_have_rf, uk_master, uk_text, uk_ngram, uk_wratio, uk_pc,
            uk_en_cands, uk_zh_cands>>
tlVars == <<tl_app, tl_raw, tl_pc, tl_df, tl_mapping, tl_warnings, tl_pats,
            tl_raised, tl_pages, tl_hits>>
pwVars == <<pw_secret, pw_state, pw_shown, pw_submitted, pw_runs, pw_sessions>>
wrVars == <<wr_ws, wr_df, wr_before, wr_pc>>
axVars == <<ax_have_gs, ax_json, ax_sheet, ax_use_gs, ax_pending, ax_file, ax_run, ax_upload, ax_runs>>
rtVars == <<rt_file, rt_pairs, rt_master, rt_new, rt_saved, rt_pc>>
vars == <<scanVars, diffVars, exVars, nmVars, fzVars, ssVars, ukVars, tlVars, pwVars, wrVars, axVars, rtVars>>

IdleScan ==
  /\ term_df = <<>> /\ check_pair = FALSE /\ check_first = FALSE
  /\ pno = 0 /\ pages_text = <<>> /\ known_hits = <<>>
  /\ pair_issues = <<>> /\ first_mentions = <<>> /\ seen_terms = {}
  /\ first_mentions_super = [raised |-> FALSE, records |-> <<>>]

IdleDiff ==
  /\ termbase = <<>> /\ extracted = <<>> /\ diff_pc = "idle"
  /\ new_items = <<>> /\ potential_errors = <<>>

IdleEx == ex_parts = <<>> /\ ex_text = <<>> /\ ex_pc = "idle" /\ ex_pairs = <<>>

IdleNm == nm_input = <<>> /\ nm_pc = 0 - 1 /\ nm_once = <<>> /\ nm_twice = <<>>

IdleFz == fz_token = <<>> /\ fz_pc = "idle" /\ fz_text = <<>> /\ fz_hits = <<>>

IdleSs ==
  /\ ss_app = "idle" /\ ss_have_gs = FALSE
  /\ ss_local = [exists |-> FALSE, rows |-> <<>>]
  /\ ss_sheet = [exists |-> FALSE, rows |-> <<>>]
  /\ ss_use_gs = FALSE /\ ss_creds = FALSE /\ ss_autosave = FALSE
  /\ ss_pdf = [loaded |-> FALSE, pairs |-> <<>>, unknowns |-> FALSE]
  /\ ss_ed4 = <<>> /\ ss_ed5 = {} /\ ss_runs = 0 - 2 /\ ss_event = "idle"
  /\ ss_master = <<>> /\ ss_from = "none"
  /\ ss_held = [local |-> <<>>, sheet |-> <<>>]
  /\ ss_new = <<>> /\ ss_shown = {} /\ ss_writes = <<>>
  /\ ss_run = [stopped |-> FALSE, has_ws |-> FALSE, messages |-> {}, scanned |-> FALSE]

IdleUk ==
  /\ uk_app = "idle" /\ uk_have_rf = FALSE /\ uk_master = <<>> /\ uk_text = <<>>
  /\ uk_ngram = 0 /\ uk_wratio = <<>> /\ uk_pc = "idle"
  /\ uk_en_cands = {} /\ uk_zh_cands = {}

IdleTl ==
  /\ tl_app = "idle" /\ tl_raw = [columns |-> <<>>, rows |-> <<>>]
  /\ tl_pc = "idle" /\ tl_df = <<>> /\ tl_mapping = <<>> /\ tl_warnings = <<>>
  /\ tl_pats = <<>> /\ tl_raised = FALSE /\ tl_pages = <<>> /\ tl_hits = <<>>

IdlePw ==
  /\ pw_secret = [has |-> FALSE, value |-> ""]
  /\ pw_state = [has_correct |-> FALSE, password_correct |-> FALSE,
                 has_password |-> FALSE, password |-> ""]
  /\ pw_shown = {} /\ pw_submitted = <<>> /\ pw_runs = 0 - 1 /\ pw_sessions = 0

IdleWr ==
  /\ wr_ws = [header |-> FALSE, rows |-> <<>>] /\ wr_df = <<>>
  /\ wr_before = [header |-> FALSE, rows |-> <<>>] /\ wr_pc = "idle"

IdleAx ==
  /\ ax_have_gs = FALSE /\ ax_json = FALSE /\ ax_sheet = <<>>
  /\ ax_use_gs = FALSE /\ ax_pending = FALSE
  /\ ax_file = [kind |-> "idle", pairs |-> <<>>]
  /\ ax_run = <<>> /\ ax_upload = <<>> /\ ax_runs = 0 - 2

IdleRt ==
  /\ rt_file = [exists |-> FALSE, rows |-> <<>>] /\ rt_pairs = <<>>
  /\ rt_master = <<>> /\ rt_new = <<>> /\ rt_saved = <<>> /\ rt_pc = "idle"

(***************************************************************************)
(* Patterns.  A compiled pattern is a sequence of elements: a literal      *)
(* character (re.escape(ch), matched case-insensitively under re.I), \s*   *)
(* or \s+.                                                                 *)
(***************************************************************************)
Lit(ch) == [k |-> "lit", c |-> ch]
WsStar  == [k |-> "ws*", c |-> ""]
WsPlus  == [k |-> "ws+", c |-> ""]

\* Mutant of CjkPatChar: a hyphen needs whitespace on both sides.
CjkPatCharHyphenSpaced(ch) ==
  IF IsSpace(ch) THEN <<WsPlus>>
  ELSE IF is_cjk(ch) THEN <<Lit(ch), WsStar>>
  ELSE IF ch = "-" THEN <<WsPlus, Lit("-"), WsPlus>>
  ELSE <<Lit(ch)>>

\* Mutant of CjkPatChar: no whitespace is allowed after a CJK character.
CjkPatCharNoWs(ch) ==
  IF IsSpace(ch) THEN <<WsPlus>>
  ELSE IF ch = "-" THEN <<WsStar, Lit("-"), WsStar>>
  ELSE <<Lit(ch)>>

\* One character of cjk_pat / cjk_fuzzy_pattern.
CjkPatChar(ch) ==
  IF IsSpace(ch) THEN <<WsPlus>>
  ELSE IF is_cjk(ch) THEN <<Lit(ch), WsStar>>
  ELSE IF ch = "-" THEN <<WsStar, Lit("-"), WsStar>>
  ELSE <<Lit(ch)>>

\* cjk_pat(tok) (cjk_fuzzy_pattern in the command-line tool).
cjk_pat(tok) ==
  LET t == Strip(tok) IN Concat([i \in 1..Len(t) |-> CjkPatChar(t[i])])

\* re.escape(en).replace(r'\-', r'\s*-\s*'): the canonical English pattern.
en_pat(en) ==
  Concat([i \in 1..Len(en) |->
            IF en[i] = "-" THEN <<WsStar, Lit("-"), WsStar>> ELSE <<Lit(en[i])>>])

NoMatch == 0 - 1

\* Number of whitespace characters of text from position i (1-based) on.
RECURSIVE WsRun(_, _)
WsRun(text, i) ==
  IF i <= Len(text) /\ IsSpace(text[i]) THEN 1 + WsRun(text, i + 1) ELSE 0

\* The regex engine on elements k.. of pat with the next character at i
\* (1-based): the position after the match the backtracking search finds
\* first (greedy quantifiers give back one character at a time), or NoMatch.
RECURSIVE MatchFrom(_, _, _, _)
MatchFrom(pat, k, text, i) ==
  IF k > Len(pat) THEN i
  ELSE IF pat[k].k = "lit"
    THEN IF i <= Len(text) /\ LowerCh(text[i]) = LowerCh(pat[k].c)
           THEN MatchFrom(pat, k + 1, text, i + 1)
           ELSE NoMatch
    ELSE LET lo == IF pat[k].k = "ws+" THEN 1 ELSE 0
             ok == {n \in lo..WsRun(text, i) :
                      MatchFrom(pat, k + 1, text, i + n) # NoMatch}
         IN  IF ok = {} THEN NoMatch
             ELSE MatchFrom(pat, k + 1, text, i + Max(ok))

\* rx.finditer(text): the matches, left to right and non-overlapping, as
\* <<m.start(), m.end()>> (0-based, end exclusive).  After an empty match
\* the search resumes one character further.
RECURSIVE FinditerFrom(_, _, _)
FinditerFrom(pat, text, i) ==
  IF i > Len(text) + 1 THEN <<>>
  ELSE LET e == MatchFrom(pat, 1, text, i)
       IN  IF e = NoMatch THEN FinditerFrom(pat, text, i + 1)
           ELSE <<<<i - 1, e - 1>>>> \o
                FinditerFrom(pat, text, IF e = i THEN i + 1 ELSE e)

Finditer(pat, text) == FinditerFrom(pat, text, 1)

(***************************************************************************)
(* The scan of app_streamlit_plus.py: one pass over the pages of a PDF     *)
(* with the known-variant, bilingual-pairing and first-mention checks.     *)
(***************************************************************************)

\* Bounds of the scan model.
MaxRows == 2       \* rows of the term table
MaxPages == 2      \* pages of the PDF
MaxPageLen == 3    \* characters of a page's normalized text
\* The sidebar's search window, scaled to the page length of the model.
window == 1

StyleZhEnAbbr == <<"Z", "H", "(", "E", "N", ";", "A", "B", "B", "R", ")">>
StyleZhEnLower == <<"z", "h", "(", "e", "n", ")">>
StyleEnZh == <<"E", "N", "(", "Z", "H", ")">>
ZhPrefix == <<"Z", "H", "(">>

EnCells == {<<"a">>, <<"A">>}
ZhCells == {<<"jia">>, <<"yi">>}
StyleCells == {StyleZhEnAbbr, StyleZhEnLower, StyleEnZh}
VariantCells == {<<>>}
PageChars == {"a", "jia", "yi"}

TermRows ==
  [en_canonical : EnCells, zh_canonical : ZhCells, abbr : {<<>>},
   first_mention_style : StyleCells, variant : VariantCells]

TermTables == UNION {[1..n -> TermRows] : n \in 0..MaxRows}
PageTexts == StringsUpTo(PageChars, MaxPageLen)

\* Mutant of IsDelim: the class ends with the full-width slash ("fw/") in
\* place of the ideographic comma.
IsDelimFullWidthSlash(ch) == ch \in {",", "fw,", ";", "/", "fw/"}

\* split_variants(cell): re.split(r'[,\uFF0C;/\u3001]+', cell.strip()), empty
\* parts dropped.  The class holds the comma, the full-width comma
\* ("fw,"), the semicolon, the slash and the ideographic comma ("ideo,").
IsDelim(ch) == ch \in {",", "fw,", ";", "/", "ideo,"}

RECURSIVE SplitOn(_, _)
SplitOn(s, cur) ==
  IF s = <<>> THEN <<cur>>
  ELSE IF IsDelim(Head(s)) THEN <<cur>> \o SplitOn(Tail(s), <<>>)
  ELSE SplitOn(Tail(s), Append(cur, Head(s)))

split_variants(cell) ==
  SelectSeq(SplitOn(Strip(cell), <<>>), LAMBDA p : p # <<>>)

\* The hits of one list of (pattern, row) pairs on a text, in the order of
\* the nested loops "for rx, row in pats: for m in rx.finditer(norm)".
\* pats[j] = [pat, row]; a hit is [s, e, row] with row the index in term_df.
HitsOf(pats, text) ==
  Concat([j \in 1..Len(pats) |->
            LET ms == Finditer(pats[j].pat, text)
            IN  [i \in 1..Len(ms) |->
                   [s |-> ms[i][1], e |-> ms[i][2], row |-> pats[j].row]]])

RowIdx(df) == [i \in 1..Len(df) |-> i]

\* en_pats: one pattern per row whose stripped English is not empty.
en_pats(df) ==
  LET keep == SelectSeq(RowIdx(df), LAMBDA r : Strip(df[r].en_canonical) # <<>>)
  IN  [j \in 1..Len(keep) |->
         [pat |-> en_pat(Strip(df[keep[j]].en_canonical)), row |-> keep[j]]]

\* zh_pats: one pattern per row whose stripped Chinese is not empty.
zh_pats(df) ==
  LET keep == SelectSeq(RowIdx(df), LAMBDA r : Strip(df[r].zh_canonical) # <<>>)
  IN  [j \in 1..Len(keep) |->
         [pat |-> cjk_pat(Strip(df[keep[j]].zh_canonical)), row |-> keep[j]]]

\* variant_patterns: one pattern per variant of each row.
variant_patterns(df) ==
  Concat([r \in 1..Len(df) |->
            LET vs == split_variants(df[r].variant)
            IN  [j \in 1..Len(vs) |->
                   [pat |-> cjk_pat(vs[j]), row |-> r, v |-> vs[j]]]])

\* Mutant of HasZhNear: any located Chinese term inside the window counts.
HasZhNearAnyZh(df, zh_hits, es, expected_zh) ==
  \E j \in 1..Len(zh_hits) : Abs(zh_hits[j].s - es) <= window

\* "abs(zs - es) <= window and zrow['zh_canonical'] == expected_zh" for some
\* located Chinese hit.
HasZhNear(df, zh_hits, es, expected_zh) ==
  \E j \in 1..Len(zh_hits) :
     /\ Abs(zh_hits[j].s - es) <= window
     /\ df[zh_hits[j].row].zh_canonical = expected_zh

\* 1) known variants of one page.
KnownHitsOfPage(df, p, text) ==
  LET vps == variant_patterns(df)
  IN  Concat([j \in 1..Len(vps) |->
        LET ms == Finditer(vps[j].pat, text)
        IN  [i \in 1..Len(ms) |->
               [type |-> "KNOWN_VARIANT", page |-> p,
                variant |-> vps[j].v,
                zh_canonical |-> df[vps[j].row].zh_canonical,
                en_canonical |-> df[vps[j].row].en_canonical,
                context |-> Slice(text, Max({0, ms[i][1] - 60}), ms[i][2] + 60)]]])

\* 2) the pair-proximity loop of one page.  Beside the fields of the
\* program's record, pos and row keep the offset and the term row of the
\* English hit the record was emitted for.
PairIssuesOfPage(df, p, text, en_hits, zh_hits) ==
  LET bad == SelectSeq(en_hits, LAMBDA h :
               ~HasZhNear(df, zh_hits, h.s, df[h.row].zh_canonical))
  IN  [i \in 1..Len(bad) |->
         [type |-> "MISSING_OR_WRONG_ZH", page |-> p,
          en_canonical |-> df[bad[i].row].en_canonical,
          expected_zh |-> df[bad[i].row].zh_canonical,
          context |-> Slice(text, Max({0, bad[i].s - window}), bad[i].e + window),
          pos |-> bad[i].s, row |-> bad[i].row]]

\* Mutant of SeenKey: the English term as written, not lower-cased.
SeenKeyAsWritten(erow) == erow.en_canonical

\* key = erow["en_canonical"].lower()
SeenKey(erow) == Lower(erow.en_canonical)

\* 3) the first-mention loop of one page over en_hits[k..], from the
\* seen-set seen: <<records emitted, seen-set after the loop>>.
RECURSIVE FirstMentionLoop(_, _, _, _, _, _, _)
FirstMentionLoop(df, p, text, en_hits, zh_hits, k, seen) ==
  IF k > Len(en_hits) THEN <<<<>>, seen>>
  ELSE
    LET h == en_hits[k]
        erow == df[h.row]
        key == SeenKey(erow)
    IN  IF key \in seen
          THEN FirstMentionLoop(df, p, text, en_hits, zh_hits, k + 1, seen)
          ELSE
            LET rest == FirstMentionLoop(df, p, text, en_hits, zh_hits, k + 1,
                                         seen \cup {key})
                emit == /\ StartsWith(Upper(erow.first_mention_style), ZhPrefix)
                        /\ ~HasZhNear(df, zh_hits, h.s, erow.zh_canonical)
                rec == [type |-> "FIRST_MENTION_MISSING_ZH", page |-> p,
                        en_canonical |-> erow.en_canonical,
                        expected_zh |-> erow.zh_canonical,
                        abbr |-> erow.abbr,
                        context |-> Slice(text, Max({0, h.s - window}), h.e + window),
                        pos |-> h.s, row |-> h.row]
            IN  <<(IF emit THEN <<rec>> ELSE <<>>) \o rest[1], rest[2]>>

\* 4) the first-mention loop of app_streamlit_super.py on one page, after
\* the outcome prev of the pages before.  en_pats holds (pattern, row)
\* pairs, so in "for rx,row in en_pats" row is a row of the term table,
\* and the first statement of the loop body,
\* key=row[1]["en_canonical"].lower(), takes the integer key 1 on a row
\* indexed by column names: pandas takes it as a position and returns the
\* cell of the second column, zh_canonical, a str (standardize_master
\* makes every cell a str), and indexing a str with "en_canonical" raises
\* TypeError; the releases of pandas without the positional fallback raise
\* KeyError at row[1].  Either way the first English hit ends the run and
\* no record is appended before it.
FirstMentionLoopSuper(en_hits, prev) ==
  IF prev.raised THEN prev
  ELSE IF en_hits # <<>> THEN [raised |-> TRUE, records |-> prev.records]
  ELSE prev

InitScan ==
  /\ term_df \in TermTables
  /\ check_pair = TRUE
  /\ check_first = TRUE
  /\ pno = 0
  /\ pages_text = <<>>
  /\ known_hits = <<>>
  /\ pair_issues = <<>>
  /\ first_mentions = <<>>
  /\ seen_terms = {}
  /\ first_mentions_super = [raised |-> FALSE, records |-> <<>>]

\* One iteration of "for pno, page in enumerate(reader.pages, start=1)"
\* on a page whose normalized text is text.
ScanPage(text) ==
  /\ pno < MaxPages
  /\ pno' = pno + 1
  /\ pages_text' = Append(pages_text, text)
  /\ known_hits' = known_hits \o KnownHitsOfPage(term_df, pno + 1, text)
  /\ IF check_pair \/ check_first
       THEN LET en_hits == HitsOf(en_pats(term_df), text)
                zh_hits == HitsOf(zh_pats(term_df), text)
                fm == FirstMentionLoop(term_df, pno + 1, text, en_hits, zh_hits,
                                       1, seen_terms)
            IN  /\ pair_issues' =
                     IF check_pair
                       THEN pair_issues \o
                            PairIssuesOfPage(term_df, pno + 1, text, en_hits, zh_hits)
                       ELSE pair_issues
                /\ first_mentions' =
                     IF check_first THEN first_mentions \o fm[1] ELSE first_mentions
                /\ seen_terms' = IF check_first THEN fm[2] ELSE seen_terms
                /\ first_mentions_super' =
                     FirstMentionLoopSuper(en_hits, first_mentions_super)
       ELSE /\ UNCHANGED <<pair_issues, first_mentions, seen_terms>>
            /\ first_mentions_super' =
                 FirstMentionLoopSuper(HitsOf(en_pats(term_df), text),
                                       first_mentions_super)
  /\ UNCHANGED <<term_df, check_pair, check_first>>
  /\ UNCHANGED <<diffVars, exVars, nmVars, fzVars, ssVars, ukVars, tlVars, pwVars, wrVars, axVars, rtVars>>

ScanNextPage == \E text \in PageTexts : ScanPage(text)


(***************************************************************************)
(* The diff engine of app_streamlit_auto_extract.py: detect_differences    *)
(* and detect_differences_with_location.                                   *)
(***************************************************************************)
\* Bounds of the diff model.
MaxTermRows == 2   \* rows of the term table
MaxPairs == 2      \* extracted pairs of one batch

\* Status and provenance values (one token stands for the Chinese word).
StatusConfirmed == <<"[confirmed]">>
StatusPending == <<"[pending]">>
SourceManual == <<"[manual]">>
SourcePdf == <<"[pdf]">>

DiffEn == {<<"A">>, <<"B">>}
DiffZh == {<<"jia">>, <<"yi">>}

Triple(row) == <<row.en_canonical, row.zh_canonical, row.abbr>>

\* A table no two rows of which share the (English, Chinese, abbreviation)
\* triple, as drop_duplicates leaves it.
TripleUnique(t) ==
  \A i, j \in 1..Len(t) : Triple(t[i]) = Triple(t[j]) => i = j

DiffTermRows ==
  [en_canonical : DiffEn, zh_canonical : DiffZh, abbr : {<<>>},
   first_mention_style : {StyleZhEnAbbr}, variant : {<<>>},
   status : {StatusConfirmed, StatusPending}, added_date : {<<>>},
   source : {SourceManual}]

DiffTermbases ==
  {t \in UNION {[1..n -> DiffTermRows] : n \in 0..MaxTermRows} : TripleUnique(t)}

DiffPairRows ==
  [en_canonical : DiffEn, zh_canonical : DiffZh, abbr : {<<>>, <<"x">>}]

\* A batch as parse_pdf_pairs_with_location returns it: distinct triples,
\* each with the location of its match (the i-th pair found on page i).
DiffBatches ==
  {[i \in 1..Len(b) |->
      [en_canonical |-> b[i].en_canonical, zh_canonical |-> b[i].zh_canonical,
       abbr |-> b[i].abbr, page |-> i, position |-> 0, context |-> <<>>]] :
     b \in {c \in UNION {[1..n -> DiffPairRows] : n \in 0..MaxPairs} :
              TripleUnique(c)}}

\* left.merge(right, on=key, how="inner"): the pairs <<i, j>> of a left row
\* and a right row with equal keys, in the order of the left rows and, for
\* one left row, of the right rows.
InnerJoin(left, right, key) ==
  Concat([i \in 1..Len(left) |->
            LET js == SelectSeq([j \in 1..Len(right) |-> j],
                                LAMBDA j : left[i][key] = right[j][key])
            IN  [n \in 1..Len(js) |-> <<i, js[n]>>]])

\* Mutant of SameTriple: the abbreviation is left out of the join key.
SameTripleNoAbbr(a, b) ==
  a.en_canonical = b.en_canonical /\ a.zh_canonical = b.zh_canonical

\* Equality of the join key of the left-outer merge.
SameTriple(a, b) == Triple(a) = Triple(b)

\* merged[merged["_merge"] == "left_only"][[en, zh, abbr]]: the left rows of
\* the left-outer join on the triple that found no right row.
NewItems(ext, tb) ==
  LET lonely == SelectSeq([i \in 1..Len(ext) |-> i],
                          LAMBDA i : \A j \in 1..Len(tb) : ~SameTriple(ext[i], tb[j]))
  IN  [n \in 1..Len(lonely) |->
         [en_canonical |-> ext[lonely[n]].en_canonical,
          zh_canonical |-> ext[lonely[n]].zh_canonical,
          abbr |-> ext[lonely[n]].abbr]]

\* Mutant of EnConflicts: every joined pair is reported, equal Chinese too.
EnConflictsUnfiltered(ext, tb) == InnerJoin(ext, tb, "en_canonical")

\* en_merge[zh_canonical_ext != zh_canonical_term]
EnConflicts(ext, tb) ==
  SelectSeq(InnerJoin(ext, tb, "en_canonical"),
            LAMBDA ij : ext[ij[1]].zh_canonical # tb[ij[2]].zh_canonical)

\* zh_merge[en_canonical_ext != en_canonical_term]
ZhConflicts(ext, tb) ==
  SelectSeq(InnerJoin(ext, tb, "zh_canonical"),
            LAMBDA ij : ext[ij[1]].en_canonical # tb[ij[2]].en_canonical)

\* The record of one conflict row in detect_differences.  The type is a
\* Chinese phrase in the program: "same English, different Chinese" is
\* written EN_SAME_ZH_DIFFERENT, the other one ZH_SAME_EN_DIFFERENT.
PlainEnError(ext, tb, ij) ==
  [type |-> "EN_SAME_ZH_DIFFERENT",
   en_canonical |-> ext[ij[1]].en_canonical,
   zh_extracted |-> ext[ij[1]].zh_canonical,
   zh_termbase |-> tb[ij[2]].zh_canonical,
   abbr_extracted |-> ext[ij[1]].abbr,
   abbr_termbase |-> tb[ij[2]].abbr]

PlainZhError(ext, tb, ij) ==
  [type |-> "ZH_SAME_EN_DIFFERENT",
   zh_canonical |-> ext[ij[1]].zh_canonical,
   en_extracted |-> ext[ij[1]].en_canonical,
   en_termbase |-> tb[ij[2]].en_canonical,
   abbr_extracted |-> ext[ij[1]].abbr,
   abbr_termbase |-> tb[ij[2]].abbr]

\* The record of one English conflict in detect_differences_with_location:
\* location_row is matching_row.iloc[0], the first extracted row with this
\* English and Chinese, and termbase_row.iloc[0] the first stored row with
\* this English.
LocatedEnError(ext, tb, ij) ==
  LET row == PlainEnError(ext, tb, ij)
      location_row == ext[Min({i \in 1..Len(ext) :
                        /\ ext[i].en_canonical = row.en_canonical
                        /\ ext[i].zh_canonical = row.zh_extracted})]
      termbase_row == tb[Min({j \in 1..Len(tb) :
                        tb[j].en_canonical = row.en_canonical})]
  IN  [type |-> row.type, en_canonical |-> row.en_canonical,
       zh_extracted |-> row.zh_extracted, zh_termbase |-> row.zh_termbase,
       abbr_extracted |-> row.abbr_extracted, abbr_termbase |-> row.abbr_termbase,
       termbase_status |-> termbase_row.status,
       page |-> location_row.page, position |-> location_row.position,
       context |-> location_row.context]

\* The record of one Chinese conflict, likewise.
LocatedZhError(ext, tb, ij) ==
  LET row == PlainZhError(ext, tb, ij)
      location_row == ext[Min({i \in 1..Len(ext) :
                        /\ ext[i].zh_canonical = row.zh_canonical
                        /\ ext[i].en_canonical = row.en_extracted})]
      termbase_row == tb[Min({j \in 1..Len(tb) :
                        tb[j].zh_canonical = row.zh_canonical})]
  IN  [type |-> row.type, zh_canonical |-> row.zh_canonical,
       en_extracted |-> row.en_extracted, en_termbase |-> row.en_termbase,
       abbr_extracted |-> row.abbr_extracted, abbr_termbase |-> row.abbr_termbase,
       termbase_status |-> termbase_row.status,
       page |-> location_row.page, position |-> location_row.position,
       context |-> location_row.context]

\* potential_errors of detect_differences.
PlainErrors(ext, tb) ==
  LET ec == EnConflicts(ext, tb)
      zc == ZhConflicts(ext, tb)
  IN  [n \in 1..Len(ec) |-> PlainEnError(ext, tb, ec[n])] \o
      [n \in 1..Len(zc) |-> PlainZhError(ext, tb, zc[n])]

\* potential_errors of detect_differences_with_location.
LocatedErrors(ext, tb) ==
  LET ec == EnConflicts(ext, tb)
      zc == ZhConflicts(ext, tb)
  IN  [n \in 1..Len(ec) |-> LocatedEnError(ext, tb, ec[n])] \o
      [n \in 1..Len(zc) |-> LocatedZhError(ext, tb, zc[n])]

InitDiff ==
  /\ termbase \in DiffTermbases
  /\ extracted \in DiffBatches
  /\ diff_pc = "start"
  /\ new_items = <<>>
  /\ potential_errors = <<>>

\* detect_differences(extracted, termbase)
detect_differences ==
  /\ diff_pc = "start"
  /\ diff_pc' = "plain"
  /\ new_items' = NewItems(extracted, termbase)
  /\ potential_errors' = PlainErrors(extracted, termbase)
  /\ UNCHANGED <<termbase, extracted>>
  /\ UNCHANGED <<scanVars, exVars, nmVars, fzVars, ssVars, ukVars, tlVars, pwVars, wrVars, axVars, rtVars>>

\* detect_differences_with_location(extracted_pairs_with_location, termbase)
detect_differences_with_location ==
  /\ diff_pc = "start"
  /\ diff_pc' = "located"
  /\ new_items' = NewItems(extracted, termbase)
  /\ potential_errors' = LocatedErrors(extracted, termbase)
  /\ UNCHANGED <<termbase, extracted>>
  /\ UNCHANGED <<scanVars, exVars, nmVars, fzVars, ssVars, ukVars, tlVars, pwVars, wrVars, axVars, rtVars>>


(***************************************************************************)
(* The pair extractor of app_streamlit_auto_extract.py: parse_pdf_pairs    *)
(* and parse_pdf_pairs_with_location.  The full-width forms of "(", ")",   *)
(* ";" and "-" are written "fw(", "fw)", "fw;" and "fw-".                  *)
(***************************************************************************)
\* The repetition limits of ZH, EN and ABBR and the margin of a context.
ZhMin == 2
ZhMax == 30
EnRestMax == 80
AbbrRestMax == 10
ContextMargin == 50
Unbounded == 0 - 1

\* [A-Za-z] and [0-9].
IsAlpha(ch) == LowerCh(ch) # ch \/ UpperCh(ch) # ch
IsDigit(ch) == ch \in {"0", "1", "2", "3", "4", "5", "6", "7", "8", "9"}

\* The character classes of the five patterns.
InClass(cls, ch) ==
  CASE cls = "ZH" -> ch \in ZhRangeChars
    [] cls = "ALPHA" -> IsAlpha(ch)
    [] cls = "ENREST" -> IsAlpha(ch) \/ IsDigit(ch) \/ ch = "-" \/ IsSpace(ch)
    [] cls = "ABBRREST" -> IsAlpha(ch) \/ IsDigit(ch) \/ ch = "-"
    [] cls = "WS" -> IsSpace(ch)
    [] cls = "LPAREN" -> ch \in {"(", "fw("}
    [] cls = "RPAREN" -> ch \in {")", "fw)"}
    [] cls = "DASH" -> ch \in {"-", "fw-"}
    [] cls = "SEMI" -> ch = ";"
    [] cls = "FWSEMI" -> ch = "fw;"

\* An element of a pattern with groups: a character class repeated lo..hi
\* times, greedily, inside the named group g ("" for none), or an
\* alternation (?:p1|p2) of patterns.
Rep(cls, lo, hi, g) == [cls |-> cls, lo |-> lo, hi |-> hi, g |-> g, alts |-> <<>>]
Alt(ps) == [cls |-> "", lo |-> 0, hi |-> 0, g |-> "", alts |-> ps]
One(cls) == Rep(cls, 1, 1, "")
Ws0 == Rep("WS", 0, Unbounded, "")

\* The spans <<first position, position after the last>> of the groups.
NoCaps == [zh |-> <<>>, en |-> <<>>, abbr |-> <<>>]
Fail == [ok |-> FALSE, e |-> 0, caps |-> NoCaps]

\* Number of characters of the class from position i on, hi at most.
RECURSIVE ClassRun(_, _, _, _)
ClassRun(cls, text, i, hi) ==
  IF hi # 0 /\ i <= Len(text) /\ InClass(cls, text[i])
    THEN 1 + ClassRun(cls, text, i + 1, IF hi = Unbounded THEN hi ELSE hi - 1)
    ELSE 0

Capture(caps, g, i, j) ==
  IF g = "" THEN caps
  ELSE [caps EXCEPT ![g] = IF @ = <<>> THEN <<i, j>> ELSE <<@[1], j>>]

\* The backtracking match of pat at position i (1-based): a repetition
\* takes as many characters as it can and gives them back one at a time,
\* an alternation tries its branches in order.
RECURSIVE GroupMatch(_, _, _, _), TryRep(_, _, _, _, _), TryAlt(_, _, _, _, _)
GroupMatch(pat, text, i, caps) ==
  IF pat = <<>> THEN [ok |-> TRUE, e |-> i, caps |-> caps]
  ELSE IF Head(pat).alts # <<>> THEN TryAlt(pat, text, i, caps, 1)
  ELSE TryRep(pat, text, i, caps, ClassRun(Head(pat).cls, text, i, Head(pat).hi))

TryRep(pat, text, i, caps, n) ==
  IF n < Head(pat).lo THEN Fail
  ELSE LET r == GroupMatch(Tail(pat), text, i + n,
                           Capture(caps, Head(pat).g, i, i + n))
       IN  IF r.ok THEN r ELSE TryRep(pat, text, i, caps, n - 1)

TryAlt(pat, text, i, caps, j) ==
  IF j > Len(Head(pat).alts) THEN Fail
  ELSE LET r == GroupMatch(Head(pat).alts[j] \o Tail(pat), text, i, caps)
       IN  IF r.ok THEN r ELSE TryAlt(pat, text, i, caps, j + 1)

\* pat.finditer(text) for a pattern with groups: [s, e, caps] per match.
RECURSIVE GroupFinditerFrom(_, _, _)
GroupFinditerFrom(pat, text, i) ==
  IF i > Len(text) + 1 THEN <<>>
  ELSE LET r == GroupMatch(pat, text, i, NoCaps)
       IN  IF ~r.ok THEN GroupFinditerFrom(pat, text, i + 1)
           ELSE <<[s |-> i - 1, e |-> r.e - 1, caps |-> r.caps]>> \o
                GroupFinditerFrom(pat, text, IF r.e = i THEN i + 1 ELSE r.e)

GroupFinditer(pat, text) == GroupFinditerFrom(pat, text, 1)

\* m.group(g)
Group(text, m, g) == SubSeq(text, m.caps[g][1], m.caps[g][2] - 1)

\* re.sub(r"\s+", " ", s)
RECURSIVE CollapseWs(_)
CollapseWs(s) ==
  IF s = <<>> THEN <<>>
  ELSE IF IsSpace(Head(s)) THEN <<" ">> \o CollapseWs(LStrip(s))
  ELSE <<Head(s)>> \o CollapseWs(Tail(s))

\* ZH = [U+4E00-U+9FA5]{2,30}, EN = [A-Za-z][A-Za-z0-9\-\s]{1,80} and
\* ABBR = [A-Za-z][A-Za-z0-9\-]{1,10}, each as a named group.
ZH == <<Rep("ZH", ZhMin, ZhMax, "zh")>>
EN == <<Rep("ALPHA", 1, 1, "en"), Rep("ENREST", 1, EnRestMax, "en")>>
ABBR == <<Rep("ALPHA", 1, 1, "abbr"), Rep("ABBRREST", 1, AbbrRestMax, "abbr")>>

\* 1: Chinese(English;Abbreviation)
pat1 ==
  ZH \o <<Ws0, One("LPAREN"), Ws0>> \o EN \o
  <<Alt(<< <<Ws0, One("SEMI"), Ws0>>, <<One("FWSEMI"), Ws0>> >>)>> \o
  ABBR \o <<Ws0, One("RPAREN")>>
\* 2: Chinese(English)
pat2 == ZH \o <<Ws0, One("LPAREN"), Ws0>> \o EN \o <<Ws0, One("RPAREN")>>
\* 3: English(Chinese)
pat3 == EN \o <<Ws0, One("LPAREN"), Ws0>> \o ZH \o <<Ws0, One("RPAREN")>>
\* 4: English - Chinese
pat4 == EN \o <<Ws0, One("DASH"), Ws0>> \o ZH
\* 5: Chinese - English
pat5 == ZH \o <<Ws0, One("DASH"), Ws0>> \o EN

StyleZhEn == <<"Z", "H", "(", "E", "N", ")">>

\* The tuples one pattern appends for one page, as rows of the data frame.
PairsOfPattern(pat, style, with_abbr, page_num, page_text) ==
  LET ms == GroupFinditer(pat, page_text)
  IN  [n \in 1..Len(ms) |->
         [en_canonical |-> CollapseWs(Strip(Group(page_text, ms[n], "en"))),
          zh_canonical |-> Strip(Group(page_text, ms[n], "zh")),
          abbr |-> IF with_abbr THEN Strip(Group(page_text, ms[n], "abbr"))
                   ELSE <<>>,
          first_mention_style |-> style,
          variant |-> <<>>,
          page |-> page_num,
          position |-> ms[n].s,
          context |-> Slice(page_text, Max({0, ms[n].s - ContextMargin}),
                            ms[n].e + ContextMargin),
          source |-> SourcePdf]]

\* The five loops over one page.
PairsOfPage(page_num, page_text) ==
  PairsOfPattern(pat1, StyleZhEnAbbr, TRUE, page_num, page_text) \o
  PairsOfPattern(pat2, StyleZhEn, FALSE, page_num, page_text) \o
  PairsOfPattern(pat3, StyleZhEn, FALSE, page_num, page_text) \o
  PairsOfPattern(pat4, StyleZhEn, FALSE, page_num, page_text) \o
  PairsOfPattern(pat5, StyleZhEn, FALSE, page_num, page_text)

\* Mutant of DropDuplicates: the last row of each triple is kept.
DropDuplicatesKeepLast(rows) ==
  LET keep == SelectSeq([i \in 1..Len(rows) |-> i], LAMBDA i :
                \A j \in (i + 1)..Len(rows) : Triple(rows[j]) # Triple(rows[i]))
  IN  [n \in 1..Len(keep) |-> rows[keep[n]]]

\* df.drop_duplicates(subset=["en_canonical","zh_canonical","abbr"]): of the
\* rows with one triple the first is kept, the order of the rows stays.
DropDuplicates(rows) ==
  LET keep == SelectSeq([i \in 1..Len(rows) |-> i], LAMBDA i :
                \A j \in 1..(i - 1) : Triple(rows[j]) # Triple(rows[i]))
  IN  [n \in 1..Len(keep) |-> rows[keep[n]]]

\* Mutant of parse_pdf_pairs_with_location: only pattern 2 is applied.
parse_pdf_pairs_pattern2_only(pages) ==
  DropDuplicates(Concat([p \in 1..Len(pages) |->
     PairsOfPattern(pat2, StyleZhEn, FALSE, p, pages[p])]))

parse_pdf_pairs_with_location(pages) ==
  DropDuplicates(Concat([p \in 1..Len(pages) |-> PairsOfPage(p, pages[p])]))

\* parse_pdf_pairs(full_text): the same rows without the location columns.
parse_pdf_pairs(full_text) ==
  LET rows == PairsOfPage(1, full_text)
  IN  DropDuplicates([n \in 1..Len(rows) |->
        [en_canonical |-> rows[n].en_canonical,
         zh_canonical |-> rows[n].zh_canonical,
         abbr |-> rows[n].abbr,
         first_mention_style |-> rows[n].first_mention_style,
         variant |-> rows[n].variant,
         source |-> rows[n].source]])

\* Bound of the extractor model: characters of the Chinese part.
MaxZhLen == 2

Repeat(ch, n) == [i \in 1..n |-> ch]

\* The parts of a text "Chinese(English;Abbreviation)": Chinese of 2 or
\* more CJK characters; English and abbreviations inside and outside the
\* classes EN and ABBR, among them the longest one of each class and the
\* one a character longer.
ExZhParts == {z \in StringsUpTo(CjkChars, MaxZhLen) : Len(z) >= 2}
ExEnParts ==
  {<<"a", "b">>, <<"a">>, <<"a", " ", "b">>, <<"a", "-", "b">>,
   <<"a", "b", " ">>, <<"9", "a">>, <<"a", ".", "b">>}
ExLongEnParts ==
  {<<"a">> \o Repeat("b", EnRestMax), <<"a">> \o Repeat("b", EnRestMax + 1)}
ExAbbrParts ==
  {<<"A", "B">>, <<"A">>, <<"A", "9">>, <<"9", "A">>, <<"A", " ", "B">>,
   <<"A">> \o Repeat("B", AbbrRestMax), <<"A">> \o Repeat("B", AbbrRestMax + 1)}
ExParts ==
  [zh : ExZhParts, en : ExEnParts, abbr : ExAbbrParts] \cup
  [zh : {<<"jia", "yi">>}, en : ExLongEnParts, abbr : {<<"A", "B">>}]

FormText(parts) ==
  parts.zh \o <<"(">> \o parts.en \o <<";">> \o parts.abbr \o <<")">>

InitEx ==
  /\ ex_parts \in ExParts
  /\ ex_text = FormText(ex_parts)
  /\ ex_pc = "start"
  /\ ex_pairs = <<>>

\* extracted_pairs = parse_pdf_pairs(full_text)
ParsePairs ==
  /\ ex_pc = "start"
  /\ ex_pc' = "plain"
  /\ ex_pairs' = parse_pdf_pairs(ex_text)
  /\ UNCHANGED <<ex_parts, ex_text>>
  /\ UNCHANGED <<scanVars, diffVars, nmVars, fzVars, ssVars, ukVars, tlVars, pwVars, wrVars, axVars, rtVars>>

\* extracted_pairs_with_location = parse_pdf_pairs_with_location(pages_text)
ParsePairsWithLocation ==
  /\ ex_pc = "start"
  /\ ex_pc' = "located"
  /\ ex_pairs' = parse_pdf_pairs_with_location(<<ex_text>>)
  /\ UNCHANGED <<ex_parts, ex_text>>
  /\ UNCHANGED <<scanVars, diffVars, nmVars, fzVars, ssVars, ukVars, tlVars, pwVars, wrVars, axVars, rtVars>>

(***************************************************************************)
(* Term-table normalization: standardize_master of                         *)
(* app_streamlit_auto_extract.py.  A data frame is [columns, rows], a row  *)
(* a function from the columns to cells; the column "variant" is           *)
(* "variant (...)" and "source" the provenance column.                     *)
(***************************************************************************)
REQUIRED_COLS ==
  <<"en_canonical", "zh_canonical", "abbr", "first_mention_style", "variant",
    "status", "added_date", "source">>

\* The missing value of pandas, and str(NaN).
NaN == <<"[NaN]">>
AsStr(cell) == IF cell = NaN THEN <<"n", "a", "n">> ELSE cell

EmptyFrame == [columns |-> Range(REQUIRED_COLS), rows |-> <<>>]

\* The loop over REQUIRED_COLS: a missing column is added with "", every
\* required column becomes astype(str).fillna("").str.strip().
FillAndStrip(df) ==
  [i \in 1..Len(df.rows) |->
     [c \in Range(REQUIRED_COLS) \cup df.columns |->
        IF c \in Range(REQUIRED_COLS)
          THEN Strip(AsStr(IF c \in df.columns THEN df.rows[i][c] ELSE <<>>))
          ELSE df.rows[i][c]]]

\* df.loc[df[col] == "", col] = value
DefaultCol(rows, col, value) ==
  [i \in 1..Len(rows) |->
     IF rows[i][col] = <<>> THEN [rows[i] EXCEPT ![col] = value] ELSE rows[i]]

\* df[REQUIRED_COLS]
SelectRequired(rows) ==
  [i \in 1..Len(rows) |-> [c \in Range(REQUIRED_COLS) |-> rows[i][c]]]

\* Mutant of standardize_master: duplicates are dropped before the cells
\* are converted and stripped.
standardize_master_dedup_first(df) ==
  IF df.rows = <<>> \/ df.columns = {} THEN EmptyFrame
  ELSE
    LET raw == [columns |-> df.columns \cup {"en_canonical", "zh_canonical", "abbr"},
                rows |-> DropDuplicates(
                  [i \in 1..Len(df.rows) |->
                     [c \in df.columns \cup {"en_canonical", "zh_canonical", "abbr"} |->
                        IF c \in df.columns THEN df.rows[i][c] ELSE <<>>]])]
        filled == FillAndStrip(raw)
        styled == DefaultCol(filled, "first_mention_style", StyleZhEnAbbr)
        withStatus == DefaultCol(styled, "status", StatusConfirmed)
        withSource == DefaultCol(withStatus, "source", SourceManual)
    IN  [columns |-> Range(REQUIRED_COLS), rows |-> SelectRequired(withSource)]

standardize_master(df) ==
  IF df.rows = <<>> \/ df.columns = {} THEN EmptyFrame
  ELSE
    LET filled == FillAndStrip(df)
        styled == DefaultCol(filled, "first_mention_style", StyleZhEnAbbr)
        withStatus == DefaultCol(styled, "status", StatusConfirmed)
        withSource == DefaultCol(withStatus, "source", SourceManual)
        deduped == DropDuplicates(withSource)
    IN  [columns |-> Range(REQUIRED_COLS), rows |-> SelectRequired(deduped)]

\* Bound of the normalization model.
MaxNormRows == 2   \* rows of the input table

\* Input tables: with every required column, or with the five columns of a
\* table that has never been through standardize_master.
BaseCols == {"en_canonical", "zh_canonical", "abbr", "first_mention_style", "variant"}
BaseRows ==
  [en_canonical : {<<"a">>, <<" ", "a">>}, zh_canonical : {<<"jia">>},
   abbr : {<<>>, NaN, <<"n", "a", "n">>},
   first_mention_style : {<<>>, StyleEnZh}, variant : {<<>>}]
FullRows ==
  [en_canonical : {<<"a">>, <<" ", "a">>}, zh_canonical : {<<"jia">>},
   abbr : {<<>>, NaN, <<"n", "a", "n">>},
   first_mention_style : {<<>>, StyleEnZh}, variant : {<<>>},
   status : {<<>>, StatusPending}, added_date : {<<>>}, source : {<<>>}]

NmTables ==
  {[columns |-> BaseCols, rows |-> rs] :
     rs \in UNION {[1..n -> BaseRows] : n \in 0..MaxNormRows}} \cup
  {[columns |-> Range(REQUIRED_COLS), rows |-> rs] :
     rs \in UNION {[1..n -> FullRows] : n \in 0..MaxNormRows}}

InitNm ==
  /\ nm_input \in NmTables
  /\ nm_pc = 0
  /\ nm_once = <<>>
  /\ nm_twice = <<>>

\* read_master_from_ws: return standardize_master(df)
StandardizeOnce ==
  /\ nm_pc = 0
  /\ nm_pc' = 1
  /\ nm_once' = standardize_master(nm_input)
  /\ UNCHANGED <<nm_input, nm_twice>>
  /\ UNCHANGED <<scanVars, diffVars, exVars, fzVars, ssVars, ukVars, tlVars, pwVars, wrVars, axVars, rtVars>>

\* write_master_to_ws: df = standardize_master(df) on a table that is
\* already a result of standardize_master.
StandardizeAgain ==
  /\ nm_pc = 1
  /\ nm_pc' = 2
  /\ nm_twice' = standardize_master(nm_once)
  /\ UNCHANGED <<nm_input, nm_once>>
  /\ UNCHANGED <<scanVars, diffVars, exVars, fzVars, ssVars, ukVars, tlVars, pwVars, wrVars, axVars, rtVars>>

(***************************************************************************)
(* The fuzzy pattern of one token on one text: cjk_pat(tok) compiled with  *)
(* re.I and run by finditer, as for variant_patterns and zh_pats.          *)
(***************************************************************************)
\* Bounds of the pattern model.
MaxTokenLen == 3   \* characters of a token
MaxInsert == 2     \* characters inserted into a token
MaxWs == 2         \* whitespace characters inserted at one place

AsciiChars == {"a", "B", "-", " "}
InsertChars == {"a", "b", "x"}

\* Tokens: ASCII only or CJK only, not blank.
AsciiTokens == {t \in StringsUpTo(AsciiChars, MaxTokenLen) : Strip(t) # <<>>}
CjkTokens == StringsUpTo(ZhRangeChars, MaxTokenLen) \ {<<>>}
FzTokens == AsciiTokens \cup CjkTokens

\* t with ins put between its characters g and g + 1.
InsertAt(t, g, ins) == SubSeq(t, 1, g) \o ins \o SubSeq(t, g + 1, Len(t))

\* The texts made from t by inserting 1..MaxInsert non-whitespace characters
\* between two of its characters.
Insertions(t) ==
  {InsertAt(t, g, ins) :
     g \in 1..(Len(t) - 1),
     ins \in StringsUpTo(InsertChars, MaxInsert) \ {<<>>}}

\* The texts made from t by inserting 0..MaxWs blanks between each two
\* adjacent characters.
Spaced(t) ==
  {Concat([i \in 1..Len(t) |->
             IF i < Len(t) THEN <<t[i]>> \o Repeat(" ", n[i]) ELSE <<t[i]>>]) :
     n \in [1..(Len(t) - 1) -> 0..MaxWs]}

\* The texts made from t by deleting one character.
Deletions(t) == {SubSeq(t, 1, d - 1) \o SubSeq(t, d + 1, Len(t)) : d \in 1..Len(t)}

ProbeTexts(t) == {t} \cup Insertions(t) \cup Spaced(t) \cup Deletions(t)

InitFz ==
  /\ fz_token \in FzTokens
  /\ fz_pc = "start"
  /\ fz_text = <<>>
  /\ fz_hits = <<>>

\* for m in re.compile(cjk_pat(tok), flags=re.I).finditer(text)
Probe(text) ==
  /\ fz_pc = "start"
  /\ fz_pc' = "done"
  /\ fz_text' = text
  /\ fz_hits' = Finditer(cjk_pat(fz_token), text)
  /\ UNCHANGED fz_token
  /\ UNCHANGED <<scanVars, diffVars, exVars, nmVars, ssVars, ukVars, tlVars, pwVars, wrVars, axVars, rtVars>>

ProbeSomeText == \E text \in ProbeTexts(fz_token) : Probe(text)

(***************************************************************************)
(* The term-table session of app_streamlit_super.py and                    *)
(* app_streamlit_gsheets.py.  Streamlit runs the whole script again after  *)
(* every interaction with a widget; an action is one interaction followed  *)
(* by that run.  A table is a sequence of rows over the five columns of    *)
(* REQUIRED_COLS; the uploaded PDF is given by the pairs parse_pdf_pairs   *)
(* extracts from it and by whether the unknown-term detection finds any    *)
(* candidate in it, and is one on which the checks before the tabs run to  *)
(* their end.                                                              *)
(***************************************************************************)
\* Bounds of the session model.
MaxStoreRows == 2   \* rows of a store at the start of the session
MaxPdfPairs == 1    \* pairs extracted from the uploaded PDF
MaxApproved == 1    \* rows the user fills in and ticks in the editor of tab 4
MaxRuns == 4        \* runs of the script after the first one

\* REQUIRED_COLS of app_streamlit_super.py and app_streamlit_gsheets.py.
REQUIRED_COLS_GS ==
  <<"en_canonical", "zh_canonical", "abbr", "first_mention_style", "variant">>

SsRow(en, zh, ab, style) ==
  [en_canonical |-> en, zh_canonical |-> zh, abbr |-> ab,
   first_mention_style |-> style, variant |-> <<>>]

\* Rows a store holds at the start, pairs of a PDF, rows typed in by the user.
StoreRows ==
  {SsRow(<<"a">>, <<"jia">>, <<"b">>, StyleZhEnAbbr),
   SsRow(<<"a">>, <<"yi">>, <<>>, StyleZhEn)}
PdfPairRows ==
  {SsRow(<<"a">>, <<"jia">>, <<"b">>, StyleZhEnAbbr),
   SsRow(<<"c">>, <<"jia">>, <<"b">>, StyleZhEnAbbr)}
UserRows ==
  {SsRow(<<"a", " ">>, <<"jia">>, <<"b">>, <<>>),
   SsRow(<<"c">>, <<"yi">>, <<"b">>, <<>>),
   SsRow(<<"c">>, <<>>, <<"b">>, <<>>)}

StoreTables == UNION {[1..n -> StoreRows] : n \in 0..MaxStoreRows}
Stores ==
  {[exists |-> FALSE, rows |-> <<>>]} \cup
  {[exists |-> TRUE, rows |-> t] : t \in StoreTables}
PdfFiles ==
  {[loaded |-> TRUE, pairs |-> ps, unknowns |-> u] :
     ps \in {t \in UNION {[1..n -> PdfPairRows] : n \in 0..MaxPdfPairs} :
               TripleUnique(t)},
     u \in BOOLEAN}
NoPdf == [loaded |-> FALSE, pairs |-> <<>>, unknowns |-> FALSE]
ApprovedRows == UNION {[1..n -> UserRows] : n \in 0..MaxApproved}

\* pd.read_csv of the local file: an empty field and the text "nan" are read
\* as the missing value, every other field as its text.
ReadCsv(rows) ==
  [i \in 1..Len(rows) |->
     [c \in DOMAIN rows[i] |->
        IF rows[i][c] \in {<<>>, <<"n", "a", "n">>} THEN NaN ELSE rows[i][c]]]

\* df.to_csv: a missing value is written as an empty field.
ToCsv(rows) ==
  [i \in 1..Len(rows) |->
     [c \in DOMAIN rows[i] |-> IF rows[i][c] = NaN THEN <<>> ELSE rows[i][c]]]

\* load_local_master(): the table of the file, empty without a file.
load_local_master(file) == IF file.exists THEN ReadCsv(file.rows) ELSE <<>>

\* Mutant of standardize_master_gs: duplicates are kept.
standardize_master_gs_keep_dups(rows) ==
  IF rows = <<>> THEN <<>>
  ELSE DefaultCol(
         [i \in 1..Len(rows) |->
            [c \in Range(REQUIRED_COLS_GS) |-> Strip(AsStr(rows[i][c]))]],
         "first_mention_style", StyleZhEnAbbr)

\* standardize_master of the two applications (five required columns).
standardize_master_gs(rows) ==
  IF rows = <<>> THEN <<>>
  ELSE DropDuplicates(DefaultCol(
         [i \in 1..Len(rows) |->
            [c \in Range(REQUIRED_COLS_GS) |-> Strip(AsStr(rows[i][c]))]],
         "first_mention_style", StyleZhEnAbbr))

\* read_master_from_ws(ws): the rows under the header, standardized.
read_master_from_ws(sheet) == standardize_master_gs(sheet.rows)

\* write_master_to_ws(ws, df): the sheet as it is after clear and update.
write_master_to_ws(df) == [exists |-> TRUE, rows |-> standardize_master_gs(df)]

\* save_local_master(df): the file as it is after to_csv.
save_local_master(df) == [exists |-> TRUE, rows |-> ToCsv(df)]

\* open_worksheet: a worksheet that is not found is added and its header
\* row written.
open_worksheet(sheet) ==
  IF sheet.exists THEN sheet ELSE [exists |-> TRUE, rows |-> <<>>]

\* "Load master" / "Load termbase": the term table of the run, the handle
\* ws (has_ws), the store the table came from, the sheet after the
\* connection, whether the script stopped (st.stop()), and the messages
\* st.error, st.info and st.success put on the screen.
LoadMaster(app, use_gs, creds, have_gs, conn_ok, file, sheet) ==
  IF use_gs /\ ~have_gs
    THEN [stopped |-> TRUE, has_ws |-> FALSE, master |-> <<>>, from |-> "none",
          sheet |-> sheet, messages |-> {"error: not installed"}]
  ELSE IF use_gs /\ ~creds /\ app = "gsheets"
    THEN [stopped |-> FALSE, has_ws |-> FALSE, master |-> <<>>, from |-> "none",
          sheet |-> sheet, messages |-> {"info: credentials"}]
  ELSE IF use_gs /\ creds /\ conn_ok
    THEN [stopped |-> FALSE, has_ws |-> TRUE,
          master |-> read_master_from_ws(open_worksheet(sheet)),
          from |-> "sheet", sheet |-> open_worksheet(sheet),
          messages |-> {"success: connected"}]
  ELSE [stopped |-> FALSE, has_ws |-> FALSE,
        master |-> standardize_master_gs(load_local_master(file)),
        from |-> "local", sheet |-> sheet,
        messages |-> IF use_gs /\ creds THEN {"error: connection failed"}
                     ELSE IF use_gs THEN {"info: credentials"} ELSE {}]

\* merged[merged["_merge"] == "left_only"]: the pairs whose triple no row of
\* the term table has.
LeftOnly(pairs, master) ==
  SelectSeq(pairs, LAMBDA p : \A i \in 1..Len(master) : Triple(master[i]) # Triple(p))

\* Mutant of SaveOf: the save goes to the sheet without a look at ws.
SaveOfToSheet(ld, rows, cause) ==
  [store |-> "sheet",
   table |-> write_master_to_ws(standardize_master_gs(ld.master \o rows)).rows,
   cause |-> cause, approved |-> rows]

\* "combined = standardize_master(pd.concat([termbase, rows]))" followed by
\* write_master_to_ws or save_local_master: the write made, as
\* [store, table, cause, approved].
SaveOf(ld, rows, cause) ==
  LET combined == standardize_master_gs(ld.master \o rows)
  IN  [store |-> IF ld.has_ws THEN "sheet" ELSE "local",
       table |-> IF ld.has_ws THEN write_master_to_ws(combined).rows
                 ELSE save_local_master(combined).rows,
       cause |-> cause, approved |-> rows]

\* Mutant of ButtonFired: a button on the screen counts as pressed in
\* every run.
ButtonFiredInEveryRun(on_screen, pressed, b) == on_screen

\* st.button(...): True only in the run the click of that button started.
ButtonFired(on_screen, pressed, b) == on_screen /\ pressed = b

\* The script after the load step ld: the writes it makes, in order, and
\* what it leaves on the screen.
ScriptAfterLoad(ld, app, autosave, pdf, ed4, ed5, sheet, prev_master, prev_new, pressed) ==
  LET created == IF ld.sheet # sheet
                   THEN <<[store |-> "sheet", table |-> <<>>, cause |-> "create",
                           approved |-> <<>>]>>
                   ELSE <<>>
      scanned == ~ld.stopped /\ pdf.loaded
      new_pairs == IF scanned THEN LeftOnly(pdf.pairs, ld.master) ELSE <<>>
      \* tab 4 (app_streamlit_super.py only); sort_values raises on the
      \* data frame of an empty candidate list.
      raised == scanned /\ app = "super" /\ ~pdf.unknowns
      show4 == scanned /\ app = "super" /\ pdf.unknowns
      eff4 == IF show4 /\ ld.master = prev_master THEN ed4 ELSE <<>>
      to_write == SelectSeq(eff4, LAMBDA r :
                    r.en_canonical # <<>> /\ r.zh_canonical # <<>>)
      button4 == show4 /\ to_write # <<>>
      save4 == IF ButtonFired(button4, pressed, "b4")
                 THEN <<SaveOf(ld, to_write, "b4")>> ELSE <<>>
      \* tab 5 / the pair section of app_streamlit_gsheets.py
      reach5 == scanned /\ ~raised
      auto == reach5 /\ autosave /\ new_pairs # <<>>
      show5 == reach5 /\ ~autosave /\ new_pairs # <<>>
      eff5 == IF show5 /\ new_pairs = prev_new THEN ed5 ELSE {}
      to_add == SelectSeq(new_pairs, LAMBDA p :
                  \E i \in eff5 : i <= Len(new_pairs) /\ new_pairs[i] = p)
      button5 == show5 /\ to_add # <<>>
      save5 == IF auto THEN <<SaveOf(ld, new_pairs, "auto")>>
               ELSE IF ButtonFired(button5, pressed, "b5")
                 THEN <<SaveOf(ld, to_add, "b5")>> ELSE <<>>
  IN  [writes |-> created \o save4 \o save5,
       master |-> ld.master, from |-> ld.from, new_pairs |-> new_pairs,
       run |-> [stopped |-> ld.stopped, has_ws |-> ld.has_ws,
                messages |-> ld.messages, scanned |-> scanned],
       ed4 |-> eff4, ed5 |-> eff5,
       shown |-> (IF show4 THEN {"ed4"} ELSE {}) \cup
                 (IF show5 THEN {"ed5"} ELSE {}) \cup
                 (IF button4 THEN {"b4"} ELSE {}) \cup
                 (IF button5 THEN {"b5"} ELSE {})]

\* One run of the script.  pressed is the button whose click started the
\* run ("none" for any other interaction).
Script(app, use_gs, creds, autosave, pdf, ed4, ed5, have_gs, conn_ok, file, sheet, prev_master, prev_new, pressed) ==
  ScriptAfterLoad(LoadMaster(app, use_gs, creds, have_gs, conn_ok, file, sheet),
                  app, autosave, pdf, ed4, ed5, sheet, prev_master, prev_new, pressed)

\* The content of a store after the writes ws[k..] made to it.
RECURSIVE StoreAfter(_, _, _)
StoreAfter(store, name, ws) ==
  IF ws = <<>> THEN store
  ELSE StoreAfter(IF Head(ws).store = name
                    THEN [exists |-> TRUE, rows |-> Head(ws).table] ELSE store,
                  name, Tail(ws))

InitSs ==
  /\ ss_app \in {"super", "gsheets"}
  /\ ss_have_gs \in BOOLEAN
  /\ ss_local \in Stores
  /\ ss_sheet \in Stores
  /\ ss_use_gs = FALSE /\ ss_creds = FALSE /\ ss_autosave = FALSE
  /\ ss_pdf = NoPdf /\ ss_ed4 = <<>> /\ ss_ed5 = {}
  /\ ss_runs = 0 - 1
  /\ ss_event = "none"
  /\ ss_master = <<>> /\ ss_from = "none"
  /\ ss_held = [local |-> <<>>, sheet |-> <<>>]
  /\ ss_new = <<>> /\ ss_shown = {} /\ ss_writes = <<>>
  /\ ss_run = [stopped |-> FALSE, has_ws |-> FALSE, messages |-> {}, scanned |-> FALSE]

\* One interaction, leaving the widgets at the primed values given, and
\* the run of the script it starts.
Rerun(event, use_gs, creds, autosave, pdf, ed4, ed5, pressed) ==
  \E conn_ok \in BOOLEAN :
    \E run \in {Script(ss_app, use_gs, creds, autosave, pdf, ed4, ed5,
                       ss_have_gs, conn_ok, ss_local, ss_sheet,
                       ss_master, ss_new, pressed)} :
        /\ ss_runs < MaxRuns
        /\ ss_runs' = ss_runs + 1
        /\ ss_event' = event
        /\ ss_use_gs' = use_gs /\ ss_creds' = creds /\ ss_autosave' = autosave
        /\ ss_pdf' = pdf /\ ss_ed4' = run.ed4 /\ ss_ed5' = run.ed5
        /\ ss_master' = run.master /\ ss_from' = run.from
        /\ ss_held' = [local |-> ss_local.rows, sheet |-> ss_sheet.rows]
        /\ ss_new' = run.new_pairs /\ ss_shown' = run.shown
        /\ ss_writes' = run.writes
        /\ ss_run' = run.run
        /\ ss_local' = StoreAfter(ss_local, "local", run.writes)
        /\ ss_sheet' = StoreAfter(ss_sheet, "sheet", run.writes)
        /\ UNCHANGED <<ss_app, ss_have_gs>>
        /\ UNCHANGED <<scanVars, diffVars, exVars, nmVars, fzVars, ukVars, tlVars, pwVars, wrVars, axVars, rtVars>>

\* The first run, with the widgets at their defaults.
StartSession ==
  /\ ss_runs = 0 - 1
  /\ Rerun("start", FALSE, FALSE, FALSE, NoPdf, <<>>, {}, "none")

\* The sidebar: the backend toggle, and the sheet URL with the credentials.
SetBackend ==
  /\ ss_runs >= 0
  /\ \E use_gs \in BOOLEAN, creds \in BOOLEAN :
       /\ <<use_gs, creds>> # <<ss_use_gs, ss_creds>>
       /\ (creds # ss_creds => ss_use_gs /\ use_gs = ss_use_gs)
       /\ (use_gs # ss_use_gs => creds = ss_creds)
       /\ Rerun("sidebar", use_gs, creds, ss_autosave, ss_pdf, ss_ed4, ss_ed5, "none")

\* The auto-save toggle.
ToggleAutosave ==
  /\ ss_runs >= 0
  /\ Rerun("toggle", ss_use_gs, ss_creds, ~ss_autosave, ss_pdf, ss_ed4, ss_ed5, "none")

\* st.file_uploader: a PDF is uploaded.
UploadPdf ==
  /\ ss_runs >= 0
  /\ \E pdf \in PdfFiles :
       /\ pdf # ss_pdf
       /\ Rerun("upload", ss_use_gs, ss_creds, ss_autosave, pdf, ss_ed4, ss_ed5, "none")

\* st.data_editor of tab 4: the user fills in rows and ticks them.
EditApproved ==
  /\ "ed4" \in ss_shown
  /\ \E rows \in ApprovedRows :
       /\ rows # ss_ed4
       /\ Rerun("edit", ss_use_gs, ss_creds, ss_autosave, ss_pdf, rows, ss_ed5, "none")

\* st.data_editor of the new pairs: the user ticks rows.
TickNewPairs ==
  /\ "ed5" \in ss_shown
  /\ \E sel \in SUBSET (1..Len(ss_new)) :
       /\ sel # ss_ed5
       /\ Rerun("edit", ss_use_gs, ss_creds, ss_autosave, ss_pdf, ss_ed4, sel, "none")

\* st.button: one of the save buttons on the screen is pressed.
PressSave ==
  \E b \in ss_shown \cap {"b4", "b5"} :
    Rerun("button", ss_use_gs, ss_creds, ss_autosave, ss_pdf, ss_ed4, ss_ed5, b)

(***************************************************************************)
(* The unknown-term detection of app_streamlit_super.py and                *)
(* app_streamlit_auto_plus.py on the joined text of the pages.  A page     *)
(* break of full_text is written "nl".  The candidate lists are built by   *)
(* loops over Python sets, whose order is arbitrary: they are kept as sets *)
(* of records.  fuzz.WRatio belongs to a library; its score is an input,   *)
(* one value per position of the pool.                                     *)
(***************************************************************************)
\* Bounds of the detection model.
MaxUkTextLen == 4   \* characters of full_text
MaxUkRows == 1      \* rows of the term table

\* The sidebar's sliders: the two thresholds at their defaults, the n-gram
\* length at its minimum and at its default.
en_thresh == 88
zh_thresh == 86
NgramLens == {3, 4}
\* "len(t) >= 4" / "len(t) < 4"
MinEnLen == 4
MaxExtraWords == 3
Scores == {60, 87, 100}

UkRow(en, zh, ab) == [en_canonical |-> en, zh_canonical |-> zh, abbr |-> ab]
UkRows ==
  {UkRow(<<"a", "a", "a", "a">>, <<"jia", "jia", "jia">>, <<>>),
   UkRow(<<"B">>, <<"jia", "ext", "jia">>, <<"A", "A", "A", "A">>)}
UkTables == UNION {[1..n -> UkRows] : n \in 0..MaxUkRows}
UkTexts ==
  StringsUpTo({"a", "B", " "}, MaxUkTextLen) \cup
  StringsUpTo({"jia", "ext", "nl"}, MaxUkTextLen)

\* The character classes [A-Za-z] and [A-Za-z0-9\-] of en_tokens.
IsWordStart(ch) == IsAlpha(ch)
IsWordChar(ch) == IsAlpha(ch) \/ IsDigit(ch) \/ ch = "-"

\* The position after the longest run of word characters from i on.
RECURSIVE WordEnd(_, _)
WordEnd(text, i) ==
  IF i <= Len(text) /\ IsWordChar(text[i]) THEN WordEnd(text, i + 1) ELSE i

\* (?:\s+[A-Za-z][A-Za-z0-9\-]*){0,3} from position e on, k repetitions
\* left: the position after the last word taken.
RECURSIVE ExtendWords(_, _, _)
ExtendWords(text, e, k) ==
  LET w == WsRun(text, e)
  IN  IF k > 0 /\ w >= 1 /\ e + w <= Len(text) /\ IsWordStart(text[e + w])
        THEN ExtendWords(text, WordEnd(text, e + w + 1), k - 1)
        ELSE e

\* en_tokens(text): re.findall of a word followed by up to three more
\* words, left to right and non-overlapping.
RECURSIVE EnTokensFrom(_, _)
EnTokensFrom(text, i) ==
  IF i > Len(text) THEN <<>>
  ELSE IF IsWordStart(text[i])
    THEN LET e == ExtendWords(text, WordEnd(text, i + 1), MaxExtraWords)
         IN  <<SubSeq(text, i, e - 1)>> \o EnTokensFrom(text, e)
    ELSE EnTokensFrom(text, i + 1)

en_tokens(text) == EnTokensFrom(text, 1)

\* The test of cjk_tokens on one character: is_cjk in app_streamlit_super.py,
\* U+4E00 <= ch <= U+9FFF in app_streamlit_auto_plus.py.
IsCjkOf(app, ch) == IF app = "super" THEN is_cjk(ch) ELSE ch \in ZhRangeChars

\* cjk_tokens(text, min_len, max_len): the CJK characters of the text are
\* joined into one string, and every substring of that string with a
\* length in min_len .. min(max_len, n) is a gram.
cjk_tokens(app, text, min_len, max_len) ==
  LET toks == SelectSeq(text, LAMBDA ch : IsCjkOf(app, ch))
      n == Len(toks)
  IN  UNION {{SubSeq(toks, i + 1, i + L) : i \in 0..(n - L)} :
               L \in min_len..(Min({max_len + 1, n + 1}) - 1)}

\* process.extractOne(query, pool, scorer=fuzz.WRatio) with the scores
\* given: the position of the first choice with the highest score, 0 for
\* an empty pool.
ExtractOne(pool, wratio) ==
  IF pool = <<>> THEN 0
  ELSE Min({p \in 1..Len(pool) : \A q \in 1..Len(pool) : wratio[q] <= wratio[p]})

\* Mutant of LongEnough: a candidate of length 4 is too short.
LongEnoughOver4(t) == Len(t) > MinEnLen

\* "len(t) >= 4"
LongEnough(t) == Len(t) >= MinEnLen

\* known_ens and known_zhs
KnownEns(master) ==
  {Lower(master[i].en_canonical) : i \in 1..Len(master)} \cup
  {Lower(master[i].abbr) : i \in 1..Len(master)}
KnownZhs(master) == {master[i].zh_canonical : i \in 1..Len(master)}

\* The decision on one candidate: the set with its record if it is kept,
\* the empty set if not.  is_en tells an English candidate (which needs the
\* length 4 without the backend) from a Chinese one.
Candidate(app, have_rf, master, pool, wratio, thresh, type, t, is_en) ==
  LET scored == have_rf /\ Len(master) > 0
      best == ExtractOne(pool, wratio)
      suggest == IF scored /\ best > 0 THEN pool[best] ELSE <<>>
      score == IF scored /\ best > 0 THEN wratio[best] ELSE 0
      rec == [type |-> type, candidate |-> t, suggest |-> suggest, score |-> score]
  IN  IF app = "super"
        THEN IF ~have_rf /\ is_en /\ ~LongEnough(t) THEN {}
             ELSE IF score >= thresh \/ ~have_rf THEN {rec} ELSE {}
        ELSE IF scored
          THEN IF best > 0 /\ score >= thresh THEN {rec} ELSE {}
          ELSE IF is_en /\ ~LongEnough(t) THEN {} ELSE {rec}

\* The loop "for tok in set(en_tokens(full_text))".
EnCands(app, have_rf, master, wratio, text) ==
  LET pool == [i \in 1..Len(master) |-> master[i].en_canonical] \o
              [i \in 1..Len(master) |-> master[i].abbr]
  IN  UNION {Candidate(app, have_rf, master, pool, wratio, en_thresh,
                       "UNKNOWN_EN", Strip(tok), TRUE) :
               tok \in {k \in Range(en_tokens(text)) :
                          Strip(k) # <<>> /\ Lower(Strip(k)) \notin KnownEns(master)}}

\* The loop "for gram in set(cjk_tokens(full_text, zh_ngram, zh_ngram))".
ZhCands(app, have_rf, master, wratio, text, zh_ngram) ==
  LET pool == [i \in 1..Len(master) |-> master[i].zh_canonical]
  IN  UNION {Candidate(app, have_rf, master, pool, wratio, zh_thresh,
                       "UNKNOWN_ZH", gram, FALSE) :
               gram \in cjk_tokens(app, text, zh_ngram, zh_ngram) \ KnownZhs(master)}

InitUk ==
  /\ uk_app \in {"super", "auto_plus"}
  /\ uk_have_rf \in BOOLEAN
  /\ uk_master \in UkTables
  /\ uk_text \in UkTexts
  /\ uk_ngram \in NgramLens
  /\ uk_wratio \in [1..(2 * MaxUkRows) -> Scores]
  /\ (~uk_have_rf \/ uk_master = <<>> => uk_wratio = [p \in 1..(2 * MaxUkRows) |-> 60])
  /\ uk_pc = "start"
  /\ uk_en_cands = {}
  /\ uk_zh_cands = {}

\* The unknown-term section of one run of the script.
DetectUnknown ==
  /\ uk_pc = "start"
  /\ uk_pc' = "done"
  /\ uk_en_cands' = EnCands(uk_app, uk_have_rf, uk_master, uk_wratio, uk_text)
  /\ uk_zh_cands' = ZhCands(uk_app, uk_have_rf, uk_master, uk_wratio, uk_text, uk_ngram)
  /\ UNCHANGED <<uk_app, uk_have_rf, uk_master, uk_text, uk_ngram, uk_wratio>>
  /\ UNCHANGED <<scanVars, diffVars, exVars, nmVars, fzVars, ssVars, tlVars, pwVars, wrVars, axVars, rtVars>>

(***************************************************************************)
(* The command-line tool pdf_spellcheck.py: load_patterns (read the CSV,   *)
(* map its headers, compile one pattern per variant) and scan, a page per  *)
(* step; and, for app_streamlit_plus.py, map_headers with the pattern      *)
(* building that follows it (the page loop of that application is the scan *)
(* above).  A raw table is [columns, rows]: the header names in the order  *)
(* of the file, and rows as functions from the header names to cells.      *)
(* The full-width comma and slash are written "fw," and "fw/", the         *)
(* ideographic full stop (U+3002) "fw.", the ideographic comma (U+3001)    *)
(* "ideo,", a zero-width character "zw".                                   *)
(***************************************************************************)
\* Bounds of the tool model.
MaxToolRows == 1     \* rows of the CSV
MaxToolPages == 2    \* pages of the PDF
MaxFieldLen == 3     \* characters of a variant field
\* "norm[max(0, m.start() - 60) : m.end() + 60]"
HitContext == 60

\* Header names of the files of the model.
HdrEn == <<" ", "E", "N">>
HdrZh == <<"z", "h">>
HdrVariant == <<"t", "y", "p", "o", " ">>
HdrAbbr == <<"a", "b", "b", "r">>
HdrOther == <<"n", "o", "t", "e">>

\* ALIASES: the accepted names of each required column, in the order of the
\* source (the names written in CJK characters are left out).
ALIASES ==
  [en_canonical |-> <<<<"e", "n", "_", "c", "a", "n", "o", "n", "i", "c", "a", "l">>,
                      <<"e", "n", "g", "l", "i", "s", "h">>, <<"e", "n">>,
                      <<"t", "e", "r", "m", "_", "e", "n">>, <<"c", "a", "n", "o", "n", "i", "c", "a", "l", "_", "e", "n">>>>,
   zh_canonical |-> <<<<"z", "h", "_", "c", "a", "n", "o", "n", "i", "c", "a", "l">>,
                      <<"c", "h", "i", "n", "e", "s", "e">>, <<"z", "h">>,
                      <<"t", "e", "r", "m", "_", "z", "h">>, <<"c", "a", "n", "o", "n", "i", "c", "a", "l", "_", "z", "h">>>>,
   abbr |-> <<<<"a", "b", "b", "r">>, <<"a", "b", "b", "r", "e", "v", "i", "a", "t", "i", "o", "n">>>>,
   first_mention_style |-> <<<<"f", "i", "r", "s", "t", "_", "m", "e", "n", "t", "i", "o", "n", "_", "s", "t", "y", "l", "e">>,
                             <<"s", "t", "y", "l", "e">>,
                             <<"f", "i", "r", "s", "t", "-", "m", "e", "n", "t", "i", "o", "n">>>>,
   variant |-> <<<<"v", "a", "r", "i", "a", "n", "t">>, <<"v", "a", "r", "i", "a", "n", "t", "s">>,
                 <<"t", "y", "p", "o">>, <<"m", "i", "s", "s", "p", "e", "l", "l", "i", "n", "g">>>>]

\* normalize_header(h): stripped, full-width parentheses made ASCII,
\* whitespace runs collapsed, lower-cased.
normalize_header(h) ==
  Lower(CollapseWs([i \in 1..Len(Strip(h)) |->
          IF Strip(h)[i] = "fw(" THEN "("
          ELSE IF Strip(h)[i] = "fw)" THEN ")" ELSE Strip(h)[i]]))

\* mapping[required] = found[key] for the first alias whose normalized
\* name is a key of found; found keeps the last column of each key.
\* The result is the set of mapped required columns with their header.
HeaderOf(columns, required) ==
  LET hit == {a \in 1..Len(ALIASES[required]) :
                \E c \in 1..Len(columns) :
                   normalize_header(columns[c]) = normalize_header(ALIASES[required][a])}
  IN  IF hit = {} THEN <<>>
      ELSE LET key == normalize_header(ALIASES[required][Min(hit)])
           IN  <<columns[Max({c \in 1..Len(columns) :
                                normalize_header(columns[c]) = key})]>>

HeaderMapping(columns) ==
  [required \in {r \in DOMAIN ALIASES : HeaderOf(columns, r) # <<>>} |->
     HeaderOf(columns, required)[1]]

\* out[col] = value for a scalar: a column as long as the index of out,
\* which is empty as long as no column was set from a series.
SetScalar(out, col, value) ==
  [cols |-> out.cols \cup {col},
   rows |-> [i \in 1..Len(out.rows) |-> (col :> value) @@ out.rows[i]]]

\* out[col] = series: on a frame whose index is empty the index of the
\* series is taken over and the columns set before are filled with the
\* missing value.
SetSeries(out, col, series) ==
  [cols |-> out.cols \cup {col},
   rows |-> IF out.rows = <<>>
              THEN [i \in 1..Len(series) |->
                      (col :> series[i]) @@ [c \in out.cols |-> NaN]]
              ELSE [i \in 1..Len(out.rows) |-> (col :> series[i]) @@ out.rows[i]]]

\* One step of map_headers: df[mapping[col]].astype(str) if the column is
\* mapped, the default otherwise.
SetColumn(out, raw, mapping, col, default) ==
  IF col \in DOMAIN mapping
    THEN SetSeries(out, col,
                   [i \in 1..Len(raw.rows) |-> AsStr(raw.rows[i][mapping[col]])])
    ELSE SetScalar(out, col, default)

\* map_headers(df): the output table, the mapping and the warnings about
\* missing essential columns (pdf_spellcheck.py also notes a missing abbr
\* or first_mention_style; those notes are not kept).
map_headers(raw) ==
  LET mapping == HeaderMapping(raw.columns)
      essential == <<"en_canonical", "zh_canonical", "variant">>
      o0 == [cols |-> {}, rows |-> <<>>]
      o1 == SetColumn(o0, raw, mapping, "en_canonical", <<>>)
      o2 == SetColumn(o1, raw, mapping, "zh_canonical", <<>>)
      o3 == SetColumn(o2, raw, mapping, "variant", <<>>)
      o4 == SetColumn(o3, raw, mapping, "abbr", <<>>)
      o5 == SetColumn(o4, raw, mapping, "first_mention_style", StyleZhEnAbbr)
  IN  [out |-> o5.rows, mapping |-> mapping,
       warnings |-> SelectSeq(essential, LAMBDA c : c \notin DOMAIN mapping)]

\* normalize_text(s): full-width punctuation made ASCII, zero-width
\* characters removed, whitespace runs collapsed.
NormalizeCh(ch) ==
  CASE ch = "fw(" -> "(" [] ch = "fw)" -> ")" [] ch = "fw;" -> ";"
    [] ch = "fw," -> "," [] ch = "fw." -> "." [] ch = "ideo," -> "/"
    [] OTHER -> ch

normalize_text(s) ==
  CollapseWs(SelectSeq([i \in 1..Len(s) |-> NormalizeCh(s[i])],
                       LAMBDA ch : ch # "zw"))

\* The variants of one row: split_variants(str(row[variant])) in the tool,
\* split_variants(row[variant]) in the application, which returns [] for a
\* cell that is not a string.
VariantsOfRow(app, row) ==
  IF row.variant = NaN
    THEN IF app = "cli" THEN split_variants(AsStr(NaN)) ELSE <<>>
    ELSE split_variants(row.variant)

\* The loop of load_patterns / variant_patterns.
ToolPatterns(app, df) ==
  Concat([r \in 1..Len(df) |->
            LET vs == VariantsOfRow(app, df[r])
            IN  [j \in 1..Len(vs) |->
                   [pat |-> cjk_pat(vs[j]), v |-> vs[j], row |-> r]]])

\* row["en_canonical"].strip() and row["zh_canonical"].strip() of the
\* application raise AttributeError on a missing value.
BuildRaises(app, df) ==
  /\ app = "plus"
  /\ \E r \in 1..Len(df) : df[r].en_canonical = NaN \/ df[r].zh_canonical = NaN

\* What page.extract_text() does on one page: it returns text, returns
\* None, or raises.
PageOutcome(kind, raw) == [kind |-> kind, raw |-> raw]

\* try: raw = page.extract_text() or ""   except: raw = ""
ExtractedText(outcome) == IF outcome.kind = "text" THEN outcome.raw ELSE <<>>

\* enumerate(reader.pages, start=1): the number of the page after pages.
PageNumber(pages, outcome) == Len(pages) + 1

\* The hits of one page: "for rx, v, row in pats: for m in rx.finditer(norm)".
ToolHitsOfPage(df, pats, p, norm) ==
  Concat([j \in 1..Len(pats) |->
    LET ms == Finditer(pats[j].pat, norm)
    IN  [i \in 1..Len(ms) |->
           [page |-> p, variant |-> pats[j].v,
            zh_canonical |-> df[pats[j].row].zh_canonical,
            en_canonical |-> df[pats[j].row].en_canonical,
            abbr |-> df[pats[j].row].abbr,
            first_mention_style |-> df[pats[j].row].first_mention_style,
            context |-> Slice(norm, Max({0, ms[i][1] - HitContext}),
                              ms[i][2] + HitContext)]]])

\* The files of the model.  Column orders: every sequence of distinct
\* columns among English, Chinese, variant, abbreviation and one the tool
\* does not know, with one fixed variant field; variant fields: every
\* string over the delimiters, and every string over the characters that
\* normalize_text changes, in a table with the three essential columns.
ToolHeaders == {HdrEn, HdrZh, HdrVariant, HdrAbbr, HdrOther}
ColumnOrders ==
  {cs \in UNION {[1..n -> ToolHeaders] : n \in 0..3} :
     \A i, j \in 1..Len(cs) : cs[i] = cs[j] => i = j}
DelimFields == StringsUpTo({"a", ",", "fw,", ";", "/", "ideo,", "fw/", " "}, MaxFieldLen)
WidthFields == StringsUpTo({"a", " ", "fw(", "zw", "jia"}, MaxFieldLen)
CellOf(h, field) ==
  IF h = HdrEn THEN <<"a">>
  ELSE IF h = HdrZh THEN <<"jia">>
  ELSE IF h = HdrVariant THEN field
  ELSE IF h = HdrAbbr THEN <<"b">>
  ELSE <<"x">>
\* pd.read_csv of a file with the given header, n equal rows and the given
\* variant field.
RawFrame(columns, n, field) ==
  [columns |-> columns,
   rows |-> ReadCsv([i \in 1..n |-> [h \in Range(columns) |-> CellOf(h, field)]])]
RawFrames ==
  {RawFrame(cs, n, <<"n", "a">>) : cs \in ColumnOrders, n \in 0..MaxToolRows} \cup
  {RawFrame(<<HdrEn, HdrZh, HdrVariant>>, 1, f) : f \in DelimFields \cup WidthFields}

\* The outcomes of a page of the model: a failure, None, and texts that
\* hold a variant of the table verbatim.
PageOutcomes(pats) ==
  {PageOutcome("raises", <<>>), PageOutcome("none", <<>>),
   PageOutcome("text", <<"n", "a", "n">>)} \cup
  {PageOutcome("text", pats[j].v) : j \in 1..Len(pats)} \cup
  {PageOutcome("text", <<"x">> \o pats[j].v \o <<"x">>) : j \in 1..Len(pats)}

InitTl ==
  /\ tl_app \in {"cli", "plus"}
  /\ tl_raw \in RawFrames
  /\ tl_pc = "start"
  /\ tl_df = <<>>
  /\ tl_mapping = <<>>
  /\ tl_warnings = <<>>
  /\ tl_pats = <<>>
  /\ tl_raised = FALSE
  /\ tl_pages = <<>>
  /\ tl_hits = <<>>

\* load_patterns(csvfile) of the tool; "term_df, mapping, warnings =
\* map_headers(raw)" and the pattern building of the application.
LoadPatterns ==
  /\ tl_pc = "start"
  /\ LET mh == map_headers(tl_raw)
     IN  /\ tl_df' = mh.out
         /\ tl_mapping' = mh.mapping
         /\ tl_warnings' = mh.warnings
         /\ tl_raised' = BuildRaises(tl_app, mh.out)
         /\ tl_pats' = IF BuildRaises(tl_app, mh.out) THEN <<>>
                       ELSE ToolPatterns(tl_app, mh.out)
         /\ tl_pc' = IF BuildRaises(tl_app, mh.out) THEN "raised"
                     ELSE IF tl_app = "cli" THEN "scan" ELSE "built"
  /\ UNCHANGED <<tl_app, tl_raw, tl_pages, tl_hits>>
  /\ UNCHANGED <<scanVars, diffVars, exVars, nmVars, fzVars, ssVars, ukVars, pwVars, wrVars, axVars, rtVars>>

\* One iteration of the page loop of scan(pdf, pats).
ToolScanPage(outcome) ==
  /\ tl_pc = "scan"
  /\ Len(tl_pages) < MaxToolPages
  /\ tl_pages' = Append(tl_pages, outcome)
  /\ tl_hits' = tl_hits \o
       ToolHitsOfPage(tl_df, tl_pats, PageNumber(tl_pages, outcome),
                      normalize_text(ExtractedText(outcome)))
  /\ UNCHANGED <<tl_app, tl_raw, tl_pc, tl_df, tl_mapping, tl_warnings, tl_pats,
                 tl_raised>>
  /\ UNCHANGED <<scanVars, diffVars, exVars, nmVars, fzVars, ssVars, ukVars, pwVars, wrVars, axVars, rtVars>>

ToolScanNextPage == \E outcome \in PageOutcomes(tl_pats) : ToolScanPage(outcome)

(***************************************************************************)
(* The password gate of app_streamlit_cloud.py.  st.session_state is a     *)
(* record: has_correct and has_password say whether the keys               *)
(* "password_correct" and "password" are present.  A submission of the     *)
(* password input runs the callback password_entered and then the script;  *)
(* any other interaction runs the script alone; opening the page again     *)
(* starts a session with an empty session state.  The screen of a run is   *)
(* the set of what it displayed: "input" (the password input), "error"     *)
(* (the wrong-password message) and "main" (the main application).         *)
(***************************************************************************)
\* Bounds of the gate model.
MaxPwRuns == 8       \* runs of the script
MaxPwSessions == 3   \* sessions opened

\* The passwords of the model; the first is the default of the source.
DefaultPassword == "admin123"
Passwords == {"admin123", "letmein", "guess"}
Secrets == {[has |-> FALSE, value |-> ""], [has |-> TRUE, value |-> "letmein"]}

\* The session state of a new session.
EmptySessionState ==
  [has_correct |-> FALSE, password_correct |-> FALSE,
   has_password |-> FALSE, password |-> ""]

\* st.secrets.get("password", "admin123")
ConfiguredPassword(secret) == IF secret.has THEN secret.value ELSE DefaultPassword

\* Mutant of password_entered: every submission is accepted.
password_entered_any(state, secret) ==
  [state EXCEPT !.has_correct = TRUE, !.password_correct = TRUE,
                !.has_password = FALSE, !.password = ""]

\* password_entered(): the callback of the password input.
password_entered(state, secret) ==
  IF state.password = ConfiguredPassword(secret)
    THEN [state EXCEPT !.has_correct = TRUE, !.password_correct = TRUE,
                       !.has_password = FALSE, !.password = ""]
    ELSE [state EXCEPT !.has_correct = TRUE, !.password_correct = FALSE]

\* One run of the script from its top to the gate: check_password() and
\* "if not check_password(): st.stop()".  The password input is drawn, and
\* its key enters the session state, only while "password_correct" is not
\* in the session state; the error message is drawn inside that branch.
PwScript(state) ==
  IF ~state.has_correct
    THEN [state |-> [state EXCEPT !.has_password = TRUE],
          shown |-> {"input"} \cup
                    (IF state.has_correct /\ ~state.password_correct
                       THEN {"error"} ELSE {})]
  ELSE IF ~state.password_correct
    THEN [state |-> state, shown |-> {}]
  ELSE [state |-> state, shown |-> {"main"}]

InitPw ==
  /\ pw_secret \in Secrets
  /\ pw_state = EmptySessionState
  /\ pw_shown = {} /\ pw_submitted = <<>> /\ pw_runs = 0 /\ pw_sessions = 0

\* The page is opened: a new session, and the first run of the script.
OpenPage ==
  /\ pw_sessions < MaxPwSessions /\ pw_runs < MaxPwRuns
  /\ pw_sessions' = pw_sessions + 1
  /\ pw_runs' = pw_runs + 1
  /\ pw_submitted' = <<>>
  /\ \E run \in {PwScript(EmptySessionState)} :
       pw_state' = run.state /\ pw_shown' = run.shown
  /\ UNCHANGED pw_secret
  /\ UNCHANGED <<scanVars, diffVars, exVars, nmVars, fzVars, ssVars, ukVars, tlVars, wrVars, axVars, rtVars>>

\* A password is typed into the input on the screen and submitted: the
\* widget's value is stored under its key, on_change runs the callback, and
\* the script runs again.
SubmitPassword ==
  /\ "input" \in pw_shown /\ pw_runs < MaxPwRuns
  /\ \E p \in Passwords :
       /\ p # pw_state.password
       /\ pw_submitted' = Append(pw_submitted, p)
       /\ \E run \in {PwScript(password_entered(
                         [pw_state EXCEPT !.has_password = TRUE, !.password = p],
                         pw_secret))} :
            pw_state' = run.state /\ pw_shown' = run.shown
  /\ pw_runs' = pw_runs + 1
  /\ UNCHANGED <<pw_secret, pw_sessions>>
  /\ UNCHANGED <<scanVars, diffVars, exVars, nmVars, fzVars, ssVars, ukVars, tlVars, wrVars, axVars, rtVars>>

\* Any other interaction of the session (a widget of the main application,
\* the rerun command of the menu): the script runs again.
PwRerun ==
  /\ pw_sessions > 0 /\ pw_runs < MaxPwRuns
  /\ pw_runs' = pw_runs + 1
  /\ \E run \in {PwScript(pw_state)} :
       pw_state' = run.state /\ pw_shown' = run.shown
  /\ UNCHANGED <<pw_secret, pw_submitted, pw_sessions>>
  /\ UNCHANGED <<scanVars, diffVars, exVars, nmVars, fzVars, ssVars, ukVars, tlVars, wrVars, axVars, rtVars>>

(***************************************************************************)
(* One call of write_master_to_ws(ws, df): standardize_master, then the    *)
(* two requests ws.clear() and ws.update(values).  Each request either is  *)
(* carried out or raises and leaves the worksheet as it was; the outcome   *)
(* of the call says which request raised, if any.                          *)
(***************************************************************************)
\* Bounds of the write model.
MaxWrRows == 2      \* rows of the table to save and of the worksheet

WrOutcomes == {"ok", "clear raises", "update raises"}
WrTables == UNION {[1..n -> StoreRows \cup PdfPairRows] : n \in 0..MaxWrRows}
Worksheets ==
  {[header |-> FALSE, rows |-> <<>>]} \cup
  {[header |-> TRUE, rows |-> t] : t \in StoreTables}

\* ws.clear(): the worksheet without any cell.
ws_clear(ws) == [header |-> FALSE, rows |-> <<>>]

\* ws.update(values): the header row and the rows of the table.
ws_update(ws, values) == [header |-> TRUE, rows |-> values]

\* The worksheet after "ws.clear(); ws.update(values)" with the given
\* outcome.
WsAfterWrite(ws, df, outcome) ==
  IF outcome = "clear raises" THEN ws
  ELSE IF outcome = "update raises" THEN ws_clear(ws)
  ELSE ws_update(ws_clear(ws), standardize_master_gs(df))

InitWr ==
  /\ wr_ws \in Worksheets
  /\ wr_df \in WrTables
  /\ wr_before = wr_ws
  /\ wr_pc = "start"

\* write_master_to_ws(ws, df)
WriteMasterToWs ==
  /\ wr_pc = "start"
  /\ \E outcome \in WrOutcomes :
       /\ wr_ws' = WsAfterWrite(wr_ws, wr_df, outcome)
       /\ wr_pc' = IF outcome = "ok" THEN "done" ELSE "raised"
  /\ UNCHANGED <<wr_df, wr_before>>
  /\ UNCHANGED <<scanVars, diffVars, exVars, nmVars, fzVars, ssVars, ukVars, tlVars, pwVars, axVars, rtVars>>

(***************************************************************************)
(* The script of app_streamlit_auto_extract.py from the load of the term   *)
(* table to the two upload actions.  An uploaded file is given by its kind *)
(* and by the pairs parse_pdf_pairs_with_location finds in its text (the   *)
(* page texts of a PDF, the subtitles of a video).  An action is one       *)
(* interaction followed by the run of the script it starts, and by the run *)
(* st.rerun() starts after an upload.                                      *)
(***************************************************************************)
\* Bounds of the auto-extract model.
MaxAxRows == 1      \* rows of the remote worksheet at the start
MaxAxPairs == 2     \* pairs found in the uploaded file
MaxAxRuns == 3      \* interactions after the first run

\* datetime.now().strftime(...) of the run.
CurrentDate == <<"[now]">>

AxTermRows ==
  [en_canonical : DiffEn, zh_canonical : DiffZh, abbr : {<<>>},
   first_mention_style : {StyleZhEnAbbr}, variant : {<<>>},
   status : {StatusConfirmed}, added_date : {<<>>}, source : {SourceManual}]
AxSheets ==
  {t \in UNION {[1..n -> AxTermRows] : n \in 0..MaxAxRows} : TripleUnique(t)}
AxPairRows == [en_canonical : DiffEn, zh_canonical : DiffZh, abbr : {<<>>}]
AxBatches ==
  {b \in UNION {[1..n -> AxPairRows] : n \in 0..MaxAxPairs} : TripleUnique(b)}
AxFiles == [kind : {"pdf", "video"}, pairs : AxBatches]
NoFile == [kind |-> "none", pairs |-> <<>>]
NoUpload == [fired |-> FALSE]

\* read_master_from_ws(ws) of this script.
read_master_from_ws_auto(sheet) ==
  standardize_master([columns |-> Range(REQUIRED_COLS), rows |-> sheet]).rows

\* The load of the term table: the table, whether ws is a handle, whether
\* the script stopped, and the messages put on the screen.
AxLoad(use_gs, have_gs, json, conn_ok, sheet) ==
  IF use_gs /\ ~have_gs
    THEN [stopped |-> TRUE, has_ws |-> FALSE, termbase |-> <<>>,
          messages |-> {"error: not installed"}]
  ELSE IF use_gs /\ json /\ conn_ok
    THEN [stopped |-> FALSE, has_ws |-> TRUE,
          termbase |-> read_master_from_ws_auto(sheet),
          messages |-> {"success: connected"}]
  ELSE IF use_gs /\ json
    THEN [stopped |-> FALSE, has_ws |-> FALSE, termbase |-> <<>>,
          messages |-> {"error: connection failed"}]
  ELSE IF use_gs
    THEN [stopped |-> FALSE, has_ws |-> FALSE, termbase |-> <<>>,
          messages |-> {"error: no JSON file"}]
  ELSE [stopped |-> FALSE, has_ws |-> FALSE, termbase |-> <<>>, messages |-> {}]

\* Mutant of NonDuplicate: a new item is left out only if one record has
\* both its English and its Chinese.
NonDuplicateBothEqual(items, tb) ==
  SelectSeq(items, LAMBDA r :
    \A j \in 1..Len(tb) :
       ~(tb[j].en_canonical = r.en_canonical /\
         tb[j].zh_canonical = r.zh_canonical))

\* The new items for which existing_match is empty: no record of the term
\* table has the same English or the same Chinese.
NonDuplicate(items, tb) ==
  SelectSeq(items, LAMBDA r :
    \A j \in 1..Len(tb) :
       /\ tb[j].en_canonical # r.en_canonical
       /\ tb[j].zh_canonical # r.zh_canonical)

\* new_row of the upload actions.
NewRow(row, pending) ==
  [c \in Range(REQUIRED_COLS) |->
     CASE c = "en_canonical" -> row.en_canonical
       [] c = "zh_canonical" -> row.zh_canonical
       [] c = "abbr" -> row.abbr
       [] c = "first_mention_style" -> StyleZhEnAbbr
       [] c = "variant" -> <<>>
       [] c = "status" -> IF pending THEN StatusPending ELSE StatusConfirmed
       [] c = "added_date" -> CurrentDate
       [] OTHER -> SourcePdf]

\* combined = standardize_master(pd.concat([termbase, new rows]))
Combined(tb, rows) ==
  standardize_master([columns |-> Range(REQUIRED_COLS), rows |-> tb \o rows]).rows

\* write_master_to_ws(ws, df) of this script on the worksheet rows, with
\* the outcome of its two requests.
write_master_to_ws_auto(sheet, df, outcome) ==
  IF outcome = "clear raises" THEN sheet
  ELSE IF outcome = "update raises" THEN <<>>
  ELSE standardize_master([columns |-> Range(REQUIRED_COLS), rows |-> df]).rows

\* The body of an upload button: the upload carried out and the worksheet
\* after it.
UploadBody(ld, rows, button, pending, outcome, sheet) ==
  IF ld.has_ws
    THEN [fired |-> TRUE, button |-> button, termbase |-> ld.termbase,
          pending |-> pending, outcome |-> outcome, before |-> sheet,
          after |-> write_master_to_ws_auto(sheet, Combined(ld.termbase, rows), outcome)]
    ELSE NoUpload

\* The block from "st.success(processing done)" to the last tab is part of
\* the body of "elif video_file:".
ResultsDisplayed(stopped, kind) == ~stopped /\ kind = "video"

\* The script after the load step ld.
AxAfterLoad(ld, pending, file, sheet, pressed, outcome) ==
  LET processed == ~ld.stopped /\ file.kind \in {"pdf", "video"}
      found == IF processed THEN NewItems(file.pairs, ld.termbase) ELSE <<>>
      display == ResultsDisplayed(ld.stopped, file.kind)
      non_dup == NonDuplicate(found, ld.termbase)
      rows == [i \in 1..Len(non_dup) |-> NewRow(non_dup[i], pending)]
      buttons == display /\ non_dup # <<>>
      quick == ButtonFired(buttons, pressed, "quick")
      tab == ButtonFired(buttons, pressed, "tab")
      up == IF quick THEN UploadBody(ld, rows, "quick", pending, outcome, sheet)
            ELSE IF tab THEN UploadBody(ld, rows, "tab", pending, outcome, sheet)
            ELSE NoUpload
  IN  [stopped |-> ld.stopped, has_ws |-> ld.has_ws, termbase |-> ld.termbase,
       messages |-> ld.messages \cup
                    (IF (quick \/ tab) /\ ~ld.has_ws THEN {"error: cannot connect"} ELSE {}) \cup
                    (IF up.fired /\ up.outcome # "ok" THEN {"error: upload failed"} ELSE {}),
       processed |-> processed, new_items |-> found,
       shown |-> (IF display THEN {"results"} ELSE {}) \cup
                 (IF buttons THEN {"quick", "tab"} ELSE {}),
       upload |-> up,
       rerun |-> up.fired /\ up.outcome = "ok"]

\* One run of the script.
AxScript(use_gs, have_gs, json, conn_ok, pending, file, sheet, pressed, outcome) ==
  AxAfterLoad(AxLoad(use_gs, have_gs, json, conn_ok, sheet), pending, file, sheet, pressed, outcome)

InitAx ==
  /\ ax_have_gs \in BOOLEAN
  /\ ax_json \in BOOLEAN
  /\ ax_sheet \in AxSheets
  /\ ax_use_gs = TRUE /\ ax_pending = TRUE
  /\ ax_file = NoFile
  /\ ax_run = <<>> /\ ax_upload = NoUpload
  /\ ax_runs = 0 - 1

\* One interaction, leaving the widgets at the values given, the run of
\* the script it starts and, after an upload, the run st.rerun() starts.
AxRerun(use_gs, pending, file, pressed) ==
  \E conn_ok \in BOOLEAN,
     again_ok \in IF pressed = "none" THEN {TRUE} ELSE BOOLEAN,
     outcome \in IF pressed = "none" THEN {"ok"} ELSE WrOutcomes :
    \E run \in {AxScript(use_gs, ax_have_gs, ax_json, conn_ok, pending, file,
                         ax_sheet, pressed, outcome)} :
      \E sheet \in {IF run.upload.fired THEN run.upload.after ELSE ax_sheet} :
        /\ ax_runs < MaxAxRuns
        /\ ax_runs' = ax_runs + 1
        /\ ax_use_gs' = use_gs /\ ax_pending' = pending /\ ax_file' = file
        /\ ax_upload' = run.upload
        /\ ax_sheet' = sheet
        /\ ax_run' = IF run.rerun
                       THEN AxScript(use_gs, ax_have_gs, ax_json, again_ok, pending,
                                     file, sheet, "none", "ok")
                       ELSE run
        /\ UNCHANGED <<ax_have_gs, ax_json>>
        /\ UNCHANGED <<scanVars, diffVars, exVars, nmVars, fzVars, ssVars, ukVars, tlVars, pwVars, wrVars, rtVars>>

\* The first run, with the widgets at their defaults.
AxStart ==
  /\ ax_runs = 0 - 1
  /\ AxRerun(TRUE, TRUE, NoFile, "none")

\* The toggle of the Google Sheets backend.
AxToggleUseGs ==
  /\ ax_runs >= 0
  /\ AxRerun(~ax_use_gs, ax_pending, ax_file, "none")

\* The toggle auto_mark_pending.
AxTogglePending ==
  /\ ax_runs >= 0
  /\ AxRerun(ax_use_gs, ~ax_pending, ax_file, "none")

\* A PDF or a video is uploaded.
AxUploadFile ==
  /\ ax_runs >= 0
  /\ ~ax_run.stopped
  /\ \E file \in AxFiles :
       /\ file # ax_file
       /\ AxRerun(ax_use_gs, ax_pending, file, "none")

\* st.button: one of the upload buttons on the screen is pressed.
AxPressUpload ==
  /\ ax_runs >= 0
  /\ \E b \in ax_run.shown \cap {"quick", "tab"} :
       AxRerun(ax_use_gs, ax_pending, ax_file, b)

(***************************************************************************)
(* The local store of app_streamlit_super.py over two runs on the same     *)
(* document: a run with the auto-save of the new pairs on, which writes    *)
(* termbase_master.csv, and the next run, which loads the file again and   *)
(* scans the document again.                                               *)
(***************************************************************************)
\* Bound of the round-trip model.
MaxRtPairs == 2     \* pairs found in the document

\* Pairs as parse_pdf_pairs returns them: pattern 1 gives an abbreviation,
\* patterns 2 and 3 give the empty one.
RtPairRows ==
  {SsRow(<<"a">>, <<"jia">>, <<"b">>, StyleZhEnAbbr),
   SsRow(<<"c">>, <<"yi">>, <<"b">>, StyleZhEnAbbr),
   SsRow(<<"c">>, <<"jia">>, <<>>, StyleZhEn)}
RtBatches ==
  {b \in UNION {[1..n -> RtPairRows] : n \in 0..MaxRtPairs} : TripleUnique(b)}

\* The state after the load and the scan of the first run.
InitRt ==
  /\ rt_file \in Stores
  /\ rt_pairs \in RtBatches
  /\ rt_master = standardize_master_gs(load_local_master(rt_file))
  /\ rt_new = LeftOnly(rt_pairs, rt_master)
  /\ rt_saved = <<>>
  /\ rt_pc = "loaded"

\* Tab 5 with autosave_pairs on and new pairs: combined is saved.
AutosaveNewPairs ==
  /\ rt_pc = "loaded"
  /\ rt_new # <<>>
  /\ rt_saved' = standardize_master_gs(rt_master \o rt_new)
  /\ rt_file' = save_local_master(rt_saved')
  /\ rt_pc' = "saved"
  /\ UNCHANGED <<rt_pairs, rt_master, rt_new>>
  /\ UNCHANGED <<scanVars, diffVars, exVars, nmVars, fzVars, ssVars, ukVars, tlVars, pwVars, wrVars, axVars>>

\* The next run: the term table is loaded from the file and normalized,
\* and the new pairs of the same document are computed again.
ReloadAndRescan ==
  /\ rt_pc = "saved"
  /\ rt_master' = standardize_master_gs(load_local_master(rt_file))
  /\ rt_new' = LeftOnly(rt_pairs, rt_master')
  /\ rt_pc' = "rescanned"
  /\ UNCHANGED <<rt_file, rt_pairs, rt_saved>>
  /\ UNCHANGED <<scanVars, diffVars, exVars, nmVars, fzVars, ssVars, ukVars, tlVars, pwVars, wrVars, axVars>>

(***************************************************************************)
(* Specifications, one per part of the program.                            *)
(***************************************************************************)
InitScanOnly == InitScan /\ IdleDiff /\ IdleEx /\ IdleNm /\ IdleFz /\ IdleSs /\ IdleUk /\ IdleTl /\ IdlePw /\ IdleWr /\ IdleAx /\ IdleRt
NextScan == ScanNextPage
SpecScan == InitScanOnly /\ [][NextScan]_vars

InitDiffOnly == InitDiff /\ IdleScan /\ IdleEx /\ IdleNm /\ IdleFz /\ IdleSs /\ IdleUk /\ IdleTl /\ IdlePw /\ IdleWr /\ IdleAx /\ IdleRt
NextDiff == detect_differences \/ detect_differences_with_location
SpecDiff == InitDiffOnly /\ [][NextDiff]_vars

InitExOnly == InitEx /\ IdleScan /\ IdleDiff /\ IdleNm /\ IdleFz /\ IdleSs /\ IdleUk /\ IdleTl /\ IdlePw /\ IdleWr /\ IdleAx /\ IdleRt
NextEx == ParsePairs \/ ParsePairsWithLocation
SpecExtract == InitExOnly /\ [][NextEx]_vars

InitNmOnly == InitNm /\ IdleScan /\ IdleDiff /\ IdleEx /\ IdleFz /\ IdleSs /\ IdleUk /\ IdleTl /\ IdlePw /\ IdleWr /\ IdleAx /\ IdleRt
NextNm == StandardizeOnce \/ StandardizeAgain
SpecNormalize == InitNmOnly /\ [][NextNm]_vars

InitFzOnly == InitFz /\ IdleScan /\ IdleDiff /\ IdleEx /\ IdleNm /\ IdleSs /\ IdleUk /\ IdleTl /\ IdlePw /\ IdleWr /\ IdleAx /\ IdleRt
NextFz == ProbeSomeText
SpecFuzzy == InitFzOnly /\ [][NextFz]_vars

InitSsOnly == InitSs /\ IdleScan /\ IdleDiff /\ IdleEx /\ IdleNm /\ IdleFz /\ IdleUk /\ IdleTl /\ IdlePw /\ IdleWr /\ IdleAx /\ IdleRt
NextSs ==
  \/ StartSession \/ SetBackend \/ ToggleAutosave \/ UploadPdf
  \/ EditApproved \/ TickNewPairs \/ PressSave
SpecSession == InitSsOnly /\ [][NextSs]_vars

InitUkOnly == InitUk /\ IdleScan /\ IdleDiff /\ IdleEx /\ IdleNm /\ IdleFz /\ IdleSs /\ IdleTl /\ IdlePw /\ IdleWr /\ IdleAx /\ IdleRt
NextUk == DetectUnknown
SpecUnknown == InitUkOnly /\ [][NextUk]_vars

InitTlOnly ==
  InitTl /\ IdleScan /\ IdleDiff /\ IdleEx /\ IdleNm /\ IdleFz /\ IdleSs /\ IdleUk /\ IdlePw /\ IdleWr /\ IdleAx /\ IdleRt
NextTl == LoadPatterns \/ ToolScanNextPage
SpecTool == InitTlOnly /\ [][NextTl]_vars

InitPwOnly == InitPw /\ IdleScan /\ IdleDiff /\ IdleEx /\ IdleNm /\ IdleFz /\ IdleSs /\ IdleUk /\ IdleTl /\ IdleWr /\ IdleAx /\ IdleRt
NextPw == OpenPage \/ SubmitPassword \/ PwRerun
SpecGate == InitPwOnly /\ [][NextPw]_vars

InitWrOnly == InitWr /\ IdleScan /\ IdleDiff /\ IdleEx /\ IdleNm /\ IdleFz /\ IdleSs /\ IdleUk /\ IdleTl /\ IdlePw /\ IdleAx /\ IdleRt
NextWr == WriteMasterToWs
SpecWrite == InitWrOnly /\ [][NextWr]_vars

InitAxOnly == InitAx /\ IdleScan /\ IdleDiff /\ IdleEx /\ IdleNm /\ IdleFz /\ IdleSs /\ IdleUk /\ IdleTl /\ IdlePw /\ IdleWr /\ IdleRt
NextAx == AxStart \/ AxToggleUseGs \/ AxTogglePending \/ AxUploadFile \/ AxPressUpload
SpecAuto == InitAxOnly /\ [][NextAx]_vars

InitRtOnly == InitRt /\ IdleScan /\ IdleDiff /\ IdleEx /\ IdleNm /\ IdleFz /\ IdleSs /\ IdleUk /\ IdleTl /\ IdlePw /\ IdleWr /\ IdleAx
NextRt == AutosaveNewPairs \/ ReloadAndRescan
SpecRoundTrip == InitRtOnly /\ [][NextRt]_vars

(***************************************************************************)
(* Claims about the scan                                                   *)
(***************************************************************************)

\* Rows of the term table that have an English pattern.
EnRows == {r \in 1..Len(term_df) : Strip(term_df[r].en_canonical) # <<>>}

\* Offsets at which the English term of row r is located on page p.
EnStarts(r, p) ==
  {m[1] : m \in Range(Finditer(en_pat(Strip(term_df[r].en_canonical)),
                               pages_text[p]))}

\* Offsets of the located Chinese occurrences on page p that carry the
\* zh_canonical z.
ZhStartsOf(z, p) ==
  UNION {{m[1] : m \in Range(Finditer(cjk_pat(Strip(term_df[r].zh_canonical)),
                                      pages_text[p]))} :
           r \in {q \in 1..Len(term_df) :
                    /\ Strip(term_df[q].zh_canonical) # <<>>
                    /\ term_df[q].zh_canonical = z}}

\* Some located Chinese occurrence on page p, of any term, starts within the
\* window of es.
AnyZhNear(p, es) ==
  \E q \in 1..Len(term_df) :
     \E zs \in ZhStartsOf(term_df[q].zh_canonical, p) : Abs(zs - es) <= window

\* The expected Chinese of row r starts within the window of es on page p.
ExpectedZhNear(r, p, es) ==
  \E zs \in ZhStartsOf(term_df[r].zh_canonical, p) : Abs(zs - es) <= window

PairRecordsFor(p, r, es) ==
  {i \in DOMAIN pair_issues :
     /\ pair_issues[i].page = p
     /\ pair_issues[i].row = r
     /\ pair_issues[i].pos = es}

\* C1: with the consistency check on, for every page scanned and every
\* occurrence (offset es) of the English term of a term record on it, the
\* scan has emitted exactly one MISSING_OR_WRONG_ZH record when no located
\* Chinese occurrence carrying that record's expected Chinese starts within
\* the window of es on the same page, and none when one does; a different
\* Chinese term inside the window, or the expected Chinese elsewhere, does
\* not count.  No other MISSING_OR_WRONG_ZH record exists.
C1_PairRecordIffExpectedZhNotNear ==
  check_pair =>
    /\ \A p \in 1..pno : \A r \in EnRows : \A es \in EnStarts(r, p) :
         Cardinality(PairRecordsFor(p, r, es)) =
           IF ExpectedZhNear(r, p, es) THEN 0 ELSE 1
    /\ \A i \in DOMAIN pair_issues :
         LET rec == pair_issues[i]
         IN  /\ rec.type = "MISSING_OR_WRONG_ZH"
             /\ rec.page \in 1..pno
             /\ rec.row \in EnRows
             /\ rec.pos \in EnStarts(rec.row, rec.page)
             /\ rec.en_canonical = term_df[rec.row].en_canonical
             /\ rec.expected_zh = term_df[rec.row].zh_canonical

\* Witness of C1: a record was emitted for an English occurrence although a
\* different Chinese term starts inside the window and the expected Chinese
\* is on the same page outside the window; and on another page the expected
\* Chinese inside the window left an occurrence of the same record without
\* a record.
C1_Witness ==
  /\ check_pair
  /\ \E p \in 1..pno : \E r \in EnRows : \E es \in EnStarts(r, p) :
       /\ PairRecordsFor(p, r, es) # {}
       /\ AnyZhNear(p, es)
       /\ ZhStartsOf(term_df[r].zh_canonical, p) # {}
       /\ \E p2 \in 1..pno : \E es2 \in EnStarts(r, p2) :
            /\ ExpectedZhNear(r, p2, es2)
            /\ PairRecordsFor(p2, r, es2) = {}

\* The lower-cased English terms of the table.
TermKeys == {Lower(term_df[r].en_canonical) : r \in EnRows}
RowsOfKey(k) == {r \in EnRows : Lower(term_df[r].en_canonical) = k}

\* Pages scanned on which the term k occurs.
PagesOfKey(k) ==
  {p \in 1..pno : \E r \in RowsOfKey(k) : EnStarts(r, p) # {}}

FirstRecordsOf(k) ==
  {i \in DOMAIN first_mentions : Lower(first_mentions[i].en_canonical) = k}

\* The style begins with "ZH(", letter case ignored as fmt.upper() does.
StyleBeginsZh(style) ==
  /\ Len(style) >= 3
  /\ UpperCh(style[1]) = "Z" /\ UpperCh(style[2]) = "H" /\ style[3] = "("

\* The rule of the first-mention check: with the check on, over the whole
\* scan at most one FIRST_MENTION_MISSING_ZH record exists per lower-cased
\* English term; it exists exactly when the term's first occurrence (lowest
\* page, then lowest offset) belongs to a record (the first row of that
\* term) whose style begins with "ZH(" and whose expected Chinese does not
\* start within the window of that occurrence on that page; the record is
\* the one of that first occurrence, and later occurrences add none.  With
\* as_written the style is compared as it is written, otherwise with its
\* letter case ignored.
FirstMentionRule(as_written) ==
  check_first =>
    /\ \A k \in TermKeys :
         IF PagesOfKey(k) = {} THEN FirstRecordsOf(k) = {}
         ELSE
           LET p0 == Min(PagesOfKey(k))
               r0 == Min(RowsOfKey(k))
               es0 == Min(UNION {EnStarts(r, p0) : r \in RowsOfKey(k)})
               style == term_df[r0].first_mention_style
               due == /\ IF as_written THEN SubSeq(style, 1, 3) = <<"Z", "H", "(">>
                                       ELSE StyleBeginsZh(style)
                      /\ ~ExpectedZhNear(r0, p0, es0)
           IN  /\ k \in seen_terms
               /\ Cardinality(FirstRecordsOf(k)) = IF due THEN 1 ELSE 0
               /\ \A i \in FirstRecordsOf(k) :
                    /\ first_mentions[i].page = p0
                    /\ first_mentions[i].pos = es0
                    /\ first_mentions[i].expected_zh = term_df[r0].zh_canonical
    /\ \A i \in DOMAIN first_mentions :
         Lower(first_mentions[i].en_canonical) \in TermKeys

\* C2 as stated: at most one FIRST_MENTION_MISSING_ZH record per lower-cased
\* English term, emitted exactly when the record of the term's first
\* occurrence has a style that begins with "ZH(" and its expected Chinese
\* does not start within the window on that page.
C2_FirstMentionStyleAsWritten == FirstMentionRule(TRUE)

\* C2, amended: at most one FIRST_MENTION_MISSING_ZH record per lower-cased
\* English term, emitted exactly when the record of the term's first
\* occurrence has a style that begins with "ZH(" in any letter case
\* ("zh(en)" as well) and its expected Chinese does not start within the
\* window on that page; later occurrences of the term emit nothing.
C2_FirstMentionOncePerTerm == FirstMentionRule(FALSE)

\* Witness of C2: a term occurs on two pages without its expected Chinese
\* near; the first page's occurrence got the one record, the second page's
\* got none.
C2_Witness ==
  /\ check_first
  /\ pno = 2
  /\ \E k \in TermKeys :
       /\ PagesOfKey(k) = {1, 2}
       /\ Cardinality(RowsOfKey(k)) = 2
       /\ \A r \in RowsOfKey(k) : \A es \in EnStarts(r, 2) : ~ExpectedZhNear(r, 2, es)
       /\ Cardinality(FirstRecordsOf(k)) = 1
       /\ \A i \in FirstRecordsOf(k) : first_mentions[i].page = 1

(***************************************************************************)
(* Claims about the diff engine                                            *)
(***************************************************************************)
DiffRan == diff_pc \in {"plain", "located"}

\* An extracted pair and a stored record agree on all three fields.
InTable(i) ==
  \E j \in 1..Len(termbase) :
     /\ termbase[j].en_canonical = extracted[i].en_canonical
     /\ termbase[j].zh_canonical = extracted[i].zh_canonical
     /\ termbase[j].abbr = extracted[i].abbr

ReportedNew(i) ==
  \E n \in 1..Len(new_items) :
     /\ new_items[n].en_canonical = extracted[i].en_canonical
     /\ new_items[n].zh_canonical = extracted[i].zh_canonical
     /\ new_items[n].abbr = extracted[i].abbr

\* C3: after either diff function has run, the new items are exactly the
\* extracted pairs whose (English, Chinese, abbreviation) triple is in no
\* row of the term table: a pair whose triple is stored is not reported, a
\* pair that differs from every stored triple in some field is reported,
\* once, and nothing else is reported.
C3_NewItemsAreAbsentTriples ==
  DiffRan =>
    /\ \A i \in 1..Len(extracted) : ReportedNew(i) <=> ~InTable(i)
    /\ \A n \in 1..Len(new_items) :
          \E i \in 1..Len(extracted) : Triple(new_items[n]) = Triple(extracted[i])
    /\ \A n, m \in 1..Len(new_items) :
          Triple(new_items[n]) = Triple(new_items[m]) => n = m

\* A batch with a pair that is stored and a pair that differs from a
\* stored record in the abbreviation alone; the second one is reported.
C3_Witness ==
  /\ diff_pc = "located"
  /\ \E i \in 1..Len(extracted) : InTable(i) /\ ~ReportedNew(i)
  /\ \E i \in 1..Len(extracted), j \in 1..Len(termbase) :
        /\ termbase[j].en_canonical = extracted[i].en_canonical
        /\ termbase[j].zh_canonical = extracted[i].zh_canonical
        /\ termbase[j].abbr # extracted[i].abbr
        /\ ReportedNew(i)

\* The combinations of an extracted pair i and a stored record j that are
\* in conflict.
EnCombos ==
  {ij \in (1..Len(extracted)) \X (1..Len(termbase)) :
     /\ extracted[ij[1]].en_canonical = termbase[ij[2]].en_canonical
     /\ extracted[ij[1]].zh_canonical # termbase[ij[2]].zh_canonical}
ZhCombos ==
  {ij \in (1..Len(extracted)) \X (1..Len(termbase)) :
     /\ extracted[ij[1]].zh_canonical = termbase[ij[2]].zh_canonical
     /\ extracted[ij[1]].en_canonical # termbase[ij[2]].en_canonical}

\* A conflict record shows the values of the combination ij.
ShowsEnCombo(rec, ij) ==
  /\ rec.type = "EN_SAME_ZH_DIFFERENT"
  /\ rec.en_canonical = extracted[ij[1]].en_canonical
  /\ rec.en_canonical = termbase[ij[2]].en_canonical
  /\ rec.zh_extracted = extracted[ij[1]].zh_canonical
  /\ rec.abbr_extracted = extracted[ij[1]].abbr
  /\ rec.zh_termbase = termbase[ij[2]].zh_canonical
  /\ rec.abbr_termbase = termbase[ij[2]].abbr
ShowsZhCombo(rec, ij) ==
  /\ rec.type = "ZH_SAME_EN_DIFFERENT"
  /\ rec.zh_canonical = extracted[ij[1]].zh_canonical
  /\ rec.zh_canonical = termbase[ij[2]].zh_canonical
  /\ rec.en_extracted = extracted[ij[1]].en_canonical
  /\ rec.abbr_extracted = extracted[ij[1]].abbr
  /\ rec.en_termbase = termbase[ij[2]].en_canonical
  /\ rec.abbr_termbase = termbase[ij[2]].abbr

\* C4: after either diff function has run, each combination of an
\* extracted pair and a stored record with equal English and unequal
\* Chinese has exactly one same-English conflict record, which carries the
\* extracted and the stored values of that combination; likewise for equal
\* Chinese and unequal English; and every conflict record is the record of
\* such a combination.
C4_OneConflictPerCombination ==
  DiffRan =>
    /\ \A ij \in EnCombos :
          Cardinality({n \in 1..Len(potential_errors) :
                         ShowsEnCombo(potential_errors[n], ij)}) = 1
    /\ \A ij \in ZhCombos :
          Cardinality({n \in 1..Len(potential_errors) :
                         ShowsZhCombo(potential_errors[n], ij)}) = 1
    /\ \A n \in 1..Len(potential_errors) :
          \/ \E ij \in EnCombos : ShowsEnCombo(potential_errors[n], ij)
          \/ \E ij \in ZhCombos : ShowsZhCombo(potential_errors[n], ij)

\* A batch and a table with a conflict on the English side, a conflict on
\* the Chinese side, and a pair and a stored record with the same English
\* and the same Chinese, which is no conflict.
C4_Witness ==
  /\ diff_pc = "located"
  /\ EnCombos # {}
  /\ ZhCombos # {}
  /\ \E i \in 1..Len(extracted), j \in 1..Len(termbase) :
        /\ extracted[i].en_canonical = termbase[j].en_canonical
        /\ extracted[i].zh_canonical = termbase[j].zh_canonical
  /\ Len(potential_errors) = Cardinality(EnCombos) + Cardinality(ZhCombos)

\* The stored record a conflict record shows: the one with the record's
\* stored English, Chinese and abbreviation.
StoredOf(rec) ==
  CHOOSE j \in 1..Len(termbase) :
     IF rec.type = "EN_SAME_ZH_DIFFERENT"
       THEN Triple(termbase[j]) =
              <<rec.en_canonical, rec.zh_termbase, rec.abbr_termbase>>
       ELSE Triple(termbase[j]) =
              <<rec.en_termbase, rec.zh_canonical, rec.abbr_termbase>>

\* C5: the status of each conflict record of
\* detect_differences_with_location is the status of the stored record
\* whose values the conflict shows.
C5_StatusOfJoinedRecord ==
  diff_pc = "located" =>
    \A n \in 1..Len(potential_errors) :
       potential_errors[n].termbase_status =
         termbase[StoredOf(potential_errors[n])].status

(***************************************************************************)
(* Claims about the pair extractor                                         *)
(***************************************************************************)
ExRan == ex_pc \in {"plain", "located"}

\* The result is one pair made of the three parts, of style ZH(EN;ABBR).
OnePairOfParts ==
  /\ Len(ex_pairs) = 1
  /\ ex_pairs[1].en_canonical = ex_parts.en
  /\ ex_pairs[1].zh_canonical = ex_parts.zh
  /\ ex_pairs[1].abbr = ex_parts.abbr
  /\ ex_pairs[1].first_mention_style = StyleZhEnAbbr

ZhAccepted(z) ==
  Len(z) \in ZhMin..ZhMax /\ \A i \in 1..Len(z) : z[i] \in ZhRangeChars
EnAccepted(e) ==
  /\ Len(e) \in 2..(EnRestMax + 1)
  /\ IsAlpha(e[1])
  /\ \A i \in 2..Len(e) : IsAlpha(e[i]) \/ IsDigit(e[i]) \/ e[i] \in {"-", " "}
  /\ e[Len(e)] # " "
  /\ \A i \in 1..(Len(e) - 1) : ~(e[i] = " " /\ e[i + 1] = " ")
AbbrAccepted(a) ==
  /\ Len(a) \in 2..(AbbrRestMax + 1)
  /\ IsAlpha(a[1])
  /\ \A i \in 2..Len(a) : IsAlpha(a[i]) \/ IsDigit(a[i]) \/ a[i] = "-"

Lead(s) == Len(s) - Len(LStrip(s))
Trail(s) == Len(s) - Len(RStrip(s))

\* Some match spans the text from its first to its last non-blank
\* character.
SpansText ==
  \E n \in 1..Len(fz_hits) :
     /\ fz_hits[n][1] <= Lead(fz_text)
     /\ fz_hits[n][2] >= Len(fz_text) - Trail(fz_text)

\* C7 as stated, a text being matched when finditer finds a match in it:
\* the pattern of an ASCII token matches the token and matches no text
\* made by inserting non-whitespace characters between two characters of
\* the token.
C7_MatchesTokenAndNoInsertion ==
  (fz_pc = "done" /\ fz_token \in AsciiTokens) =>
    /\ fz_text = fz_token => fz_hits # <<>>
    /\ fz_text \in Insertions(fz_token) => fz_hits = <<>>

\* C7, amended: the pattern of an ASCII token has a match that spans the
\* token from its first to its last non-blank character, and in a text made
\* by inserting non-whitespace characters between two characters of the
\* token no match spans the text in that way (a part of such a text can
\* match: the token "aa" in "aaa").
C7_SpansTokenAndNoInsertion ==
  (fz_pc = "done" /\ fz_token \in AsciiTokens) =>
    /\ fz_text = fz_token => SpansText
    /\ fz_text \in Insertions(fz_token) => ~SpansText

\* A token with a hyphen and an insertion in which a part still matches.
C7_Witness ==
  /\ fz_pc = "done"
  /\ fz_token \in AsciiTokens
  /\ \E i \in 1..Len(fz_token) : fz_token[i] = "-"
  /\ fz_text \in Insertions(fz_token)
  /\ fz_hits # <<>>
  /\ ~SpansText

\* C8: the pattern of a CJK token matches, from the first character to the
\* last, every text made by inserting whitespace between adjacent
\* characters of the token, and finds no match in a text made by deleting
\* one character of the token.
C8_CjkWhitespaceTolerated ==
  (fz_pc = "done" /\ fz_token \in CjkTokens) =>
    /\ fz_text \in Spaced(fz_token) => fz_hits = << <<0, Len(fz_text)>> >>
    /\ fz_text \in Deletions(fz_token) => fz_hits = <<>>

\* A token of three ideographs with whitespace in both places.
C8_Witness ==
  /\ fz_pc = "done"
  /\ fz_token \in CjkTokens
  /\ Len(fz_token) = 3
  /\ fz_text \in Spaced(fz_token)
  /\ Len(fz_text) >= 6
  /\ fz_text[2] = " " /\ fz_text[Len(fz_text) - 1] = " "
  /\ fz_hits # <<>>

(***************************************************************************)
(* Claims about normalization                                              *)
(***************************************************************************)
\* C9: standardize_master applied to its own result returns that result:
\* the same rows in the same order with the same values.
C9_StandardizeIdempotent ==
  nm_pc = 2 => nm_twice = nm_once

\* Two rows that differ only in blanks around the English term, in a table
\* without the status and provenance columns: the first call strips,
\* fills the defaults and drops a row, the second changes nothing.
C9_Witness ==
  /\ nm_pc = 2
  /\ nm_input.columns = BaseCols
  /\ Len(nm_input.rows) = 2
  /\ nm_input.rows[1].en_canonical # nm_input.rows[2].en_canonical
  /\ Len(nm_once.rows) = 1
  /\ nm_once.rows[1].status = StatusConfirmed
  /\ nm_twice = nm_once

\* The cell of column c in row i of the input as the normalizer reads it:
\* converted to a string and trimmed, "" for a missing column.
TrimmedCell(i, c) ==
  Strip(AsStr(IF c \in nm_input.columns THEN nm_input.rows[i][c] ELSE <<>>))
TrimmedTriple(i) ==
  <<TrimmedCell(i, "en_canonical"), TrimmedCell(i, "zh_canonical"),
    TrimmedCell(i, "abbr")>>

\* The first input row with the trimmed triple of row i.
FirstOfTriple(i) ==
  Min({k \in 1..Len(nm_input.rows) : TrimmedTriple(k) = TrimmedTriple(i)})

\* Row i of the input with its own values, trimmed, the defaults filled in.
OwnValues(i) ==
  [c \in Range(REQUIRED_COLS) |->
     IF TrimmedCell(i, c) # <<>> THEN TrimmedCell(i, c)
     ELSE IF c = "first_mention_style" THEN StyleZhEnAbbr
     ELSE IF c = "status" THEN StatusConfirmed
     ELSE IF c = "source" THEN SourceManual
     ELSE <<>>]

\* C10: the normalized table holds, for each trimmed (English, Chinese,
\* abbreviation) triple of the input, exactly one row; it is the first
\* input row of that triple with its own values, and the rows keep the
\* order of the input.
C10_FirstRowOfEachTripleKept ==
  nm_pc >= 1 =>
    LET firsts == SelectSeq([i \in 1..Len(nm_input.rows) |-> i],
                            LAMBDA i : FirstOfTriple(i) = i)
    IN  /\ Len(nm_once.rows) = Len(firsts)
        /\ \A n \in 1..Len(firsts) : nm_once.rows[n] = OwnValues(firsts[n])

\* Two rows equal on the triple after trimming and different in style and
\* status: only the earlier one is kept, with its own style and status.
C10_Witness ==
  /\ nm_pc = 1
  /\ Len(nm_input.rows) = 2
  /\ nm_input.columns = Range(REQUIRED_COLS)
  /\ nm_input.rows[1].en_canonical # nm_input.rows[2].en_canonical
  /\ TrimmedTriple(1) = TrimmedTriple(2)
  /\ nm_input.rows[1].first_mention_style = StyleEnZh
  /\ nm_input.rows[2].first_mention_style = <<>>
  /\ nm_input.rows[1].status = StatusPending
  /\ nm_input.rows[2].status = <<>>
  /\ Len(nm_once.rows) = 1
  /\ nm_once.rows[1].first_mention_style = StyleEnZh
  /\ nm_once.rows[1].status = StatusPending

(***************************************************************************)
(* Claims about the term-table session                                     *)
(***************************************************************************)

\* The writes of the last run that save a term table (every write but the
\* header row of a worksheet just added).
Saves == SelectSeq(ss_writes, LAMBDA w : w.cause # "create")

\* C11: every table written to a backing store, the local file or the
\* remote worksheet, by whatever run of the script, has no two rows with
\* the same (English, Chinese, abbreviation) triple, and neither has the
\* store it was written to after the run.
C11_WrittenTablesTripleUnique ==
  /\ \A i \in 1..Len(ss_writes) : TripleUnique(ss_writes[i].table)
  /\ (\E i \in 1..Len(ss_writes) : ss_writes[i].store = "local") =>
       TripleUnique(ss_local.rows)
  /\ (\E i \in 1..Len(ss_writes) : ss_writes[i].store = "sheet") =>
       TripleUnique(ss_sheet.rows)

\* A button press saved a table from which a row approved by the user was
\* dropped as the duplicate of another row.
C11_Witness ==
  \E i \in 1..Len(ss_writes) :
     /\ ss_writes[i].cause = "b4"
     /\ ss_writes[i].approved # <<>>
     /\ Len(ss_writes[i].table) < Len(ss_master) + Len(ss_writes[i].approved)

\* C12 as stated: with auto-save off a run that no button press started
\* writes neither store, and a run a button press started makes at most one
\* write.
C12_WritesOnlyOnButtonOrAutosave ==
  /\ (~ss_autosave /\ ss_event # "button" => ss_writes = <<>>)
  /\ (ss_event = "button" => Len(ss_writes) <= 1)

\* C12: with auto-save off a run that no button press started saves no
\* term table, and a run a button press started saves at most one; the only
\* other write is the header row of a worksheet that connecting to the
\* sheet has just added.
C12_SavesOnlyOnButtonOrAutosave ==
  /\ (~ss_autosave /\ ss_event # "button" => Saves = <<>>)
  /\ (~ss_autosave /\ ss_event = "button" => Len(Saves) <= 1)
  /\ \A i \in 1..Len(ss_writes) :
        ss_writes[i].cause = "create" =>
          /\ i = 1 /\ ss_writes[i].store = "sheet" /\ ss_writes[i].table = <<>>
          /\ ss_held.sheet = <<>> /\ ss_use_gs /\ ss_creds

\* With auto-save off, a button press saved a table, and the button was on
\* the screen again after that run without a further save.
C12_Witness ==
  /\ ~ss_autosave /\ ss_event = "button" /\ Len(Saves) = 1
  /\ ss_shown \cap {"b4", "b5"} # {}

\* The records a store holds, as loading the store reads them.
RecordsHeld(store, rows) ==
  {Triple(r) : r \in Range(standardize_master_gs(
                             IF store = "local" THEN ReadCsv(rows) ELSE rows))}

\* C13 as stated: every save writes to the store the term table of the run
\* was loaded from, and the written table has every record that store held
\* when the run began, and the approved rows.
C13_SaveKeepsStoredRecords ==
  \A i \in 1..Len(Saves) :
     /\ Saves[i].store = ss_from
     /\ RecordsHeld(Saves[i].store, ss_held[Saves[i].store]) \subseteq
          {Triple(r) : r \in Range(Saves[i].table)}
     /\ {Triple(r) : r \in Range(standardize_master_gs(Saves[i].approved))} \subseteq
          {Triple(r) : r \in Range(Saves[i].table)}

(***************************************************************************)
(* Claims about the unknown-term detection                                 *)
(***************************************************************************)

\* The English candidates met in the text that are no known English term
\* or abbreviation.
UnknownEnTokens ==
  {Strip(k) : k \in Range(en_tokens(uk_text))} \
  ({<<>>} \cup {t \in {Strip(k) : k \in Range(en_tokens(uk_text))} :
                 Lower(t) \in KnownEns(uk_master)})

\* The Chinese n-grams of the text that are no known Chinese term.
UnknownZhGrams ==
  cjk_tokens(uk_app, uk_text, uk_ngram, uk_ngram) \ KnownZhs(uk_master)

\* C14: without the fuzzy-similarity backend, an English candidate that is
\* no known English term or abbreviation is kept if and only if it has at
\* least 4 characters, and every Chinese n-gram that is no known Chinese
\* term is kept.
C14_LengthRuleWithoutBackend ==
  uk_pc = "done" /\ ~uk_have_rf =>
    /\ \A t \in UnknownEnTokens :
          (\E c \in uk_en_cands : c.candidate = t) <=> Len(t) >= 4
    /\ \A c \in uk_en_cands : c.candidate \in UnknownEnTokens
    /\ \A g \in UnknownZhGrams : \E c \in uk_zh_cands : c.candidate = g

\* Without the backend and with a term table that is not empty, an English
\* candidate of exactly 4 characters was kept.
C14_Witness ==
  /\ uk_pc = "done" /\ ~uk_have_rf /\ uk_master # <<>>
  /\ \E c \in uk_en_cands : Len(c.candidate) = 4

\* C15 as stated: every Chinese candidate has the n-gram length and is a
\* substring of the scanned text made of CJK characters only, and there is
\* no candidate when no run of CJK characters of the text is that long.
C15_ZhCandidatesContiguous ==
  uk_pc = "done" =>
    \A c \in uk_zh_cands :
       /\ Len(c.candidate) = uk_ngram
       /\ \A k \in 1..Len(c.candidate) : IsCjkOf(uk_app, c.candidate[k])
       /\ \E i \in 1..(Len(uk_text) - uk_ngram + 1) :
             SubSeq(uk_text, i, i + uk_ngram - 1) = c.candidate

\* The pool a candidate of the given type is scored against.
PoolOf(type) ==
  IF type = "UNKNOWN_EN"
    THEN [i \in 1..Len(uk_master) |-> uk_master[i].en_canonical] \o
         [i \in 1..Len(uk_master) |-> uk_master[i].abbr]
    ELSE [i \in 1..Len(uk_master) |-> uk_master[i].zh_canonical]

\* C16 as stated: with the backend, a candidate is in the result only if
\* its best score against the pool is at least the threshold of its type,
\* whatever the term table, the empty one included, and it carries the
\* best match as its suggestion.
C16_KeptOnlyAboveThreshold ==
  uk_pc = "done" /\ uk_have_rf =>
    \A c \in uk_en_cands \cup uk_zh_cands :
       LET pool == PoolOf(c.type)
           thresh == IF c.type = "UNKNOWN_EN" THEN en_thresh ELSE zh_thresh
       IN  /\ pool # <<>>
           /\ \E p \in 1..Len(pool) :
                 /\ \A q \in 1..Len(pool) : uk_wratio[q] <= uk_wratio[p]
                 /\ uk_wratio[p] >= thresh
                 /\ c.suggest = pool[p] /\ c.score = uk_wratio[p]

(***************************************************************************)
(* Claims about the command-line tool and map_headers                      *)
(***************************************************************************)

\* v occurs in text as it is written.
OccursIn(v, text) ==
  \E i \in 0..(Len(text) - Len(v)) : SubSeq(text, i + 1, i + Len(v)) = v

\* C17 as stated: a variant that appears verbatim in the raw text of a page
\* whose text was extracted always produces a hit on that page, whatever
\* punctuation width, zero-width characters and whitespace it contains.
C17_VerbatimVariantHits ==
  \A p \in 1..Len(tl_pages), j \in 1..Len(tl_pats) :
     tl_pages[p].kind = "text" /\ OccursIn(tl_pats[j].v, tl_pages[p].raw) =>
       \E h \in 1..Len(tl_hits) :
          tl_hits[h].page = p /\ tl_hits[h].variant = tl_pats[j].v

\* C18 as stated: for every essential column (English term, Chinese term,
\* variant list) the input lacks, map_headers records one warning, every
\* row of its output has the empty string in that field, and the pattern
\* building and scan that follow do not raise.
C18_MissingColumnsDefaultToEmpty ==
  tl_pc # "start" =>
    /\ \A c \in {"en_canonical", "zh_canonical", "variant"} :
          c \notin DOMAIN tl_mapping =>
            /\ Cardinality({i \in 1..Len(tl_warnings) : tl_warnings[i] = c}) = 1
            /\ \A r \in 1..Len(tl_df) : tl_df[r][c] = <<>>
    /\ ~tl_raised

\* The entries of a variant field between the delimiters of D: the maximal
\* runs of characters outside D in the field stripped of surrounding
\* whitespace, from left to right.
EntriesBetween(field, D) ==
  LET s == Strip(field)
      starts == {a \in 1..Len(s) : s[a] \notin D /\ (a = 1 \/ s[a - 1] \in D)}
      EndOf(a) == Min({b \in a..Len(s) : b = Len(s) \/ s[b + 1] \in D})
      Nth(k) == CHOOSE a \in starts : Cardinality({x \in starts : x < a}) = k - 1
  IN  [k \in 1..Cardinality(starts) |-> SubSeq(s, Nth(k), EndOf(Nth(k)))]

\* The variants the loaded patterns hold for row r, in order.
VariantsLoaded(r) ==
  LET mine == SelectSeq(tl_pats, LAMBDA q : q.row = r)
  IN  [k \in 1..Len(mine) |-> mine[k].v]

\* The variant fields split_variants was called on: the cells that are
\* strings.
SplitRows ==
  {r \in 1..Len(tl_df) : tl_pc \in {"scan", "built"} /\ tl_df[r].variant # NaN}

\* C19 as stated: comma, full-width comma, semicolon, slash and full-width
\* slash are the delimiters: the variants of a field are its non-empty
\* entries between them, in order, and none contains one of the five.
C19_SplitOnFullWidthSlash ==
  \A r \in SplitRows :
     /\ VariantsLoaded(r) =
          EntriesBetween(tl_df[r].variant, {",", "fw,", ";", "/", "fw/"})
     /\ \A k \in 1..Len(VariantsLoaded(r)) :
          Range(VariantsLoaded(r)[k]) \cap {",", "fw,", ";", "/", "fw/"} = {}

\* C19: comma, full-width comma, semicolon, slash and ideographic comma
\* (U+3001) are the delimiters: the variants of a field are the non-empty
\* entries between them of the field stripped of surrounding whitespace,
\* in order, and none contains one of the five; a full-width slash
\* (U+FF0F) is an ordinary character of an entry.
C19_SplitOnIdeographicComma ==
  \A r \in SplitRows :
     /\ VariantsLoaded(r) =
          EntriesBetween(tl_df[r].variant, {",", "fw,", ";", "/", "ideo,"})
     /\ \A k \in 1..Len(VariantsLoaded(r)) :
          Range(VariantsLoaded(r)[k]) \cap {",", "fw,", ";", "/", "ideo,"} = {}

\* A field was split at an ideographic comma into two variants.
C19_Witness ==
  \E r \in SplitRows :
     /\ tl_df[r].variant = <<"a", "ideo,", "a">>
     /\ VariantsLoaded(r) = << <<"a">>, <<"a">> >>

\* The hits of the pages scanned so far if every page whose extraction
\* raised had been a page with empty text.
HitsWithFailedPagesEmpty ==
  Concat([p \in 1..Len(tl_pages) |->
            ToolHitsOfPage(tl_df, tl_pats, p,
              normalize_text(IF tl_pages[p].kind = "raises" THEN <<>>
                             ELSE ExtractedText(tl_pages[p])))])

\* C20 as stated: a page whose text extraction raises contributes no hit,
\* the scan goes on with the following pages, the failed page counts in
\* the page numbers, and the hits are those of a scan in which that page
\* was empty.
C20_FailedPageContributesNoHit ==
  /\ tl_hits = HitsWithFailedPagesEmpty
  /\ \A h \in 1..Len(tl_hits) :
        /\ tl_hits[h].page \in 1..Len(tl_pages)
        /\ tl_pages[tl_hits[h].page].kind # "raises"

\* The rows of the input table whose variant cell is empty (read_csv reads
\* an empty cell as the missing value).
EmptyVariantRows ==
  {r \in 1..Len(tl_raw.rows) :
     /\ "variant" \in DOMAIN tl_mapping
     /\ tl_raw.rows[r][tl_mapping["variant"]] = NaN}

\* C28 as stated: a term record whose variant cell is empty in the input
\* table has no variant pattern, and no hit of the scan carries a variant
\* of that record, whatever the page texts.
C28_EmptyVariantCellGivesNoPattern ==
  tl_pc \in {"scan", "built"} =>
    \A r \in EmptyVariantRows :
       /\ \A j \in 1..Len(tl_pats) : tl_pats[j].row # r
       /\ \A h \in 1..Len(tl_hits) :
            ~\E j \in 1..Len(tl_pats) :
               tl_pats[j].row = r /\ tl_pats[j].v = tl_hits[h].variant

(***************************************************************************)
(* Claims about the password gate                                          *)
(***************************************************************************)

\* The password submitted last in this session is the configured one.
LastSubmittedIsConfigured ==
  /\ pw_submitted # <<>>
  /\ pw_submitted[Len(pw_submitted)] = ConfiguredPassword(pw_secret)

\* C29: the main application is on the screen only in a session whose
\* password_correct flag is true; the flag is true only if the password
\* submitted last equals the configured one, and then the submitted
\* password is no longer in the session state; a session in which every
\* submission was wrong never shows the main application.
C29_MainOnlyAfterCorrectPassword ==
  /\ "main" \in pw_shown => pw_state.has_correct /\ pw_state.password_correct
  /\ pw_state.has_correct /\ pw_state.password_correct =>
       LastSubmittedIsConfigured /\ ~pw_state.has_password
  /\ (\A i \in 1..Len(pw_submitted) :
         pw_submitted[i] # ConfiguredPassword(pw_secret)) => "main" \notin pw_shown

\* The main application is shown after the configured password was
\* submitted, in a session opened after one with a wrong submission, and
\* stays on the screen in a later run.
C29_Witness ==
  /\ "main" \in pw_shown
  /\ LastSubmittedIsConfigured
  /\ pw_sessions >= 2
  /\ pw_runs >= 5

\* C30 as stated: after a wrong submission the session shows the error
\* message and the password input again (so that a correct submission can
\* follow in the same session).
C30_WrongPasswordCanBeRetried ==
  pw_submitted # <<>> /\ ~LastSubmittedIsConfigured =>
    {"error", "input"} \subseteq pw_shown

(***************************************************************************)
(* Claims about write_master_to_ws                                         *)
(***************************************************************************)

\* C25 as stated: when write_master_to_ws raises, at whichever request, the
\* worksheet holds what it held before the call.
C25_FailedSaveLeavesSheet ==
  wr_pc = "raised" => wr_ws = wr_before

(***************************************************************************)
(* Claims about the load step of the session                               *)
(***************************************************************************)

\* The last run could not open or read the remote sheet.
ConnectionFailed == "error: connection failed" \in ss_run.messages

\* C21: a run in which opening or reading the remote sheet fails goes on
\* (no st.stop(), an uploaded document is scanned), shows the error, takes
\* the normalized local table as its term table, has no worksheet handle,
\* and writes nothing to the remote sheet, which holds after the run what
\* it held before.
C21_FailedConnectionFallsBack ==
  ConnectionFailed =>
    /\ ~ss_run.stopped
    /\ (ss_pdf.loaded => ss_run.scanned)
    /\ ~ss_run.has_ws
    /\ ss_from = "local"
    /\ ss_master = standardize_master_gs(ReadCsv(ss_held.local))
    /\ \A i \in 1..Len(ss_writes) : ss_writes[i].store = "local"
    /\ ss_sheet.rows = ss_held.sheet

\* A run with an uploaded document fails to connect while the remote sheet
\* is selected, and its save of the new pairs goes to the local file.
C21_Witness ==
  /\ ConnectionFailed
  /\ ss_run.scanned
  /\ ss_writes # <<>>
  /\ ss_local.rows # ss_held.local

\* C22 as stated: in a run with an uploaded document in which the remote
\* sheet is selected and the spreadsheet client is not installed, the
\* script is not stopped and reaches the scan of the document.
C22_MissingClientDoesNotHalt ==
  ss_runs >= 0 /\ ss_pdf.loaded /\ ss_use_gs /\ ~ss_have_gs =>
    ~ss_run.stopped /\ ss_run.scanned

(***************************************************************************)
(* Claims about the script of app_streamlit_auto_extract.py                *)
(***************************************************************************)

\* The counterpart of C21 in this script: a run that fails to connect goes
\* on with an empty term table and without a handle, shows the error, and
\* leaves the worksheet alone, whichever button started it.
AutoFailedConnectionFallsBack ==
  ax_runs >= 0 /\ "error: connection failed" \in ax_run.messages =>
    /\ ~ax_run.stopped /\ ~ax_run.has_ws /\ ax_run.termbase = <<>>
    /\ (ax_file.kind # "none" => ax_run.processed)
    /\ ax_run.upload = NoUpload

\* C23 as stated: a run that processed an uploaded PDF with a connected
\* sheet and at least one new pair that no record duplicates shows the
\* results and the one-click upload button.
C23_PdfFlowReachesUpload ==
  /\ ax_runs >= 0
  /\ ax_file.kind = "pdf"
  /\ ax_run.has_ws /\ ax_run.processed
  /\ NonDuplicate(ax_run.new_items, ax_run.termbase) # <<>>
  => {"results", "quick"} \subseteq ax_run.shown

\* The row shares neither its English nor its Chinese with a record of tb.
SharesNothing(row, tb) ==
  \A j \in 1..Len(tb) :
     /\ tb[j].en_canonical # row.en_canonical
     /\ tb[j].zh_canonical # row.zh_canonical

\* C24: after an upload action, every row of the worksheet is a record of
\* the term table as loaded, with all its fields, or a row that shares
\* neither its English nor its Chinese with any such record and whose
\* status is "pending" with auto_mark_pending on and "confirmed" with it
\* off; when the write succeeds the loaded records are all there, in
\* their places, followed by at least one added row.
C24_UploadAddsOnlyNonConflictingRows ==
  ax_runs >= 0 /\ ax_upload.fired =>
    /\ ax_sheet = ax_upload.after
    /\ \A i \in 1..Len(ax_upload.after) :
          \/ \E j \in 1..Len(ax_upload.termbase) :
                ax_upload.after[i] = ax_upload.termbase[j]
          \/ /\ SharesNothing(ax_upload.after[i], ax_upload.termbase)
             /\ ax_upload.after[i].status =
                  IF ax_upload.pending THEN StatusPending ELSE StatusConfirmed
    /\ ax_upload.outcome = "ok" =>
          /\ Len(ax_upload.after) > Len(ax_upload.termbase)
          /\ \A j \in 1..Len(ax_upload.termbase) :
                ax_upload.after[j] = ax_upload.termbase[j]

\* An upload with auto_mark_pending off succeeds for a file with two new
\* pairs, one of which has the English of a stored record with another
\* Chinese: the worksheet gains one row.
C24_Witness ==
  /\ ax_runs >= 0 /\ ax_upload.fired /\ ax_upload.outcome = "ok"
  /\ ~ax_upload.pending
  /\ ax_upload.termbase # <<>>
  /\ Len(ax_file.pairs) = 2
  /\ \E i \in 1..2 :
        /\ ax_file.pairs[i].en_canonical = ax_upload.termbase[1].en_canonical
        /\ ax_file.pairs[i].zh_canonical # ax_upload.termbase[1].zh_canonical
  /\ Len(ax_upload.after) = Len(ax_upload.termbase) + 1

(***************************************************************************)
(* Claims about the first-mention check of app_streamlit_super.py          *)
(***************************************************************************)

\* The term, expected Chinese and page of the records of the plus variant.
FirstMentionKeys ==
  [i \in 1..Len(first_mentions) |->
     [en_canonical |-> first_mentions[i].en_canonical,
      expected_zh |-> first_mentions[i].expected_zh,
      page |-> first_mentions[i].page]]

\* C27 as stated: on the pages scanned so far the first-mention check of
\* the super variant has not raised and has emitted the records of the
\* plus variant (same term, expected Chinese and page, in the same order).
C27_SuperFirstMentionAsPlus ==
  check_first =>
    /\ ~first_mentions_super.raised
    /\ first_mentions_super.records = FirstMentionKeys

(***************************************************************************)
(* Claims about the local store over two runs                              *)
(***************************************************************************)

\* The (English, Chinese, abbreviation) triples of a table, in order.
TriplesOf(t) == [i \in 1..Len(t) |-> Triple(t[i])]

\* C26 as stated: after the new pairs were saved to the local file and the
\* file was loaded and normalized again, the term table has the triples of
\* the table saved, and the scan of the same document finds no new pair.
C26_SaveThenLoadIsRoundTrip ==
  rt_pc = "rescanned" =>
    /\ TriplesOf(rt_master) = TriplesOf(rt_saved)
    /\ rt_new = <<>>

====
